---- MODULE Spec2Model ----
(***************************************************************************)
(* Model of the asynchronous download task engine of src/src/main.py:      *)
(* the task registry (jobs), the request handler download(), the worker    *)
(* _download_worker, the orchestrator _download_with_pytube with its       *)
(* stream resolvers, the quality normalizer, the cleanup thread and the    *)
(* handlers download_status() and health().                                *)
(*                                                                         *)
(* Python strings are sequences of one-character strings, so that strip,   *)
(* lower, endswith, isdigit and int() are computed and not assumed.        *)
(***************************************************************************)
EXTENDS Integers, Sequences, FiniteSets, TLC

VARIABLES
    jobs,       \* the registry: task_id -> dict (a function whose DOMAIN is the dict's keys)
    nextId,     \* number of task ids issued so far by uuid4()
    req,        \* request handlers of download() that created a task: task_id -> position
    wk,         \* worker threads: task_id -> the locals of _download_worker
    fs,         \* names of the files existing in the destination directory
    tmp,        \* scratch directories (tempfile.TemporaryDirectory) existing, by owner
    probe,      \* inputs and outputs of a pure function under test
    now,        \* time.time(), in seconds
    sweeper,    \* cleanup_thread_started and the cleanup thread's position and locals
    detached,   \* task dicts popped from the registry, which a handler may still refer to
    clients,    \* the GET handlers and the rejected POSTs, by client connection
    jobs_lock   \* the threads inside a with jobs_lock block

vars == <<jobs, nextId, req, wk, fs, tmp, probe, now, sweeper, detached, clients, jobs_lock>>

-----------------------------------------------------------------------------
(* Bounds of the model *)

MaxTasks == 2
MaxBatch == 2
MaxCore == 2
MaxStreams == 3
MaxTicks == 2
TickSeconds == 60
MaxClients == 1
MaxOffered == 2
MaxCallers == 2
MaxPolls == 3

-----------------------------------------------------------------------------
(* Python str operations on sequences of characters *)

\* A Python call: the argument is evaluated once, and the parameter names its value.
Call(F(_), argument) == CHOOSE result \in {F(value) : value \in {argument}} : TRUE

Digit == {"0", "1", "2", "3", "4", "5", "6", "7", "8", "9"}

DigitVal(c) ==
    CASE c = "0" -> 0 [] c = "1" -> 1 [] c = "2" -> 2 [] c = "3" -> 3
      [] c = "4" -> 4 [] c = "5" -> 5 [] c = "6" -> 6 [] c = "7" -> 7
      [] c = "8" -> 8 [] c = "9" -> 9

DigitChar(d) ==
    CASE d = 0 -> "0" [] d = 1 -> "1" [] d = 2 -> "2" [] d = 3 -> "3"
      [] d = 4 -> "4" [] d = 5 -> "5" [] d = 6 -> "6" [] d = 7 -> "7"
      [] d = 8 -> "8" [] d = 9 -> "9"

LowerChar(c) ==
    CASE c = "P" -> "p" [] c = "K" -> "k" [] c = "B" -> "b" [] c = "S" -> "s"
      [] c = "X" -> "x" [] c = "M" -> "m" [] c = "A" -> "a" [] OTHER -> c

Lower(s) == Call(LAMBDA str : [i \in 1..Len(str) |-> LowerChar(str[i])], s)

RECURSIVE LStrip(_)
LStrip(s) == IF s # <<>> /\ Head(s) = " " THEN LStrip(Tail(s)) ELSE s

RECURSIVE RStrip(_)
RStrip(s) == IF s # <<>> /\ s[Len(s)] = " " THEN RStrip(SubSeq(s, 1, Len(s) - 1)) ELSE s

Strip(s) == Call(RStrip, Call(LStrip, s))

EndsWith(s, suffix) ==
    /\ Len(s) >= Len(suffix)
    /\ SubSeq(s, Len(s) - Len(suffix) + 1, Len(s)) = suffix

IsDigit(s) == s # <<>> /\ \A i \in 1..Len(s) : s[i] \in Digit

RECURSIVE ToInt(_)
ToInt(s) ==
    IF s = <<>> THEN 0
    ELSE ToInt(SubSeq(s, 1, Len(s) - 1)) * 10 + DigitVal(s[Len(s)])

RECURSIVE IntToStr(_)
IntToStr(n) ==
    IF n < 10 THEN <<DigitChar(n)>>
    ELSE IntToStr(n \div 10) \o <<DigitChar(n % 10)>>

\* None, where a height is expected (heights are never negative: isdigit admits no sign)
NoHeight == -1

\* None, where a str is expected (a stream without a resolution label)
NoLabel == <<"<None>">>

Mp4 == <<"m", "p", "4">>
Mp3 == <<"m", "p", "3">>
SuffixP == <<"p">>
SuffixKbps == <<"k", "b", "p", "s">>

-----------------------------------------------------------------------------
(* Quality Normalizer *)

\* _resolution_to_int(resolution)
_resolution_to_int(resolution) ==
    IF resolution = NoLabel \/ resolution = <<>> THEN NoHeight
    ELSE Call(LAMBDA value :
                IF ~EndsWith(value, SuffixP) THEN NoHeight
                ELSE Call(LAMBDA number : IF ~IsDigit(number) THEN NoHeight ELSE ToInt(number),
                          SubSeq(value, 1, Len(value) - 1)),
              Lower(Strip(resolution)))

\* _normalize_quality with the suffix appended in upper case
_normalize_quality_upper(quality, requested_format) ==
    Call(LAMBDA value :
           IF requested_format = Mp4 /\ EndsWith(value, SuffixP) THEN value
           ELSE IF requested_format = Mp4 /\ IsDigit(value) THEN value \o <<"P">>
           ELSE IF requested_format = Mp3 /\ EndsWith(value, <<"k", "b", "p", "s">>) THEN value
           ELSE IF requested_format = Mp3 /\ IsDigit(value) THEN value \o <<"K", "B", "P", "S">>
           ELSE Strip(quality),
         Lower(Strip(quality)))

\* _normalize_quality(quality, requested_format)
_normalize_quality(quality, requested_format) ==
    Call(LAMBDA value :
           IF requested_format = Mp4 /\ EndsWith(value, SuffixP) THEN value
           ELSE IF requested_format = Mp4 /\ IsDigit(value) THEN value \o SuffixP
           ELSE IF requested_format = Mp3 /\ EndsWith(value, <<"k", "b", "p", "s">>) THEN value
           ELSE IF requested_format = Mp3 /\ IsDigit(value) THEN value \o SuffixKbps
           ELSE Strip(quality),
         Lower(Strip(quality)))

-----------------------------------------------------------------------------
(* Outcomes of a call: a returned value or a raised exception *)

Return(v) == [raised |-> FALSE, value |-> v]

\* kind: "ValueError", or "Exception" for any other subclass of Exception
Raise(kind, msg) == [raised |-> TRUE, kind |-> kind, msg |-> msg]

\* What the provider answers to yt.streams.filter(...): the candidate streams, or a fault.
\* fault: "none", "http" (urllib HTTPError) or "other" (any other Exception)
Enumerated(labels) ==
    [fault |-> "none",
     streams |-> [i \in 1..Len(labels) |-> [itag |-> i, resolution |-> labels[i]]]]

EnumFault(kind) == [fault |-> kind, streams |-> <<>>]

-----------------------------------------------------------------------------
(* Stream Resolver *)

\* the (height, stream) pairs of the candidates whose label parses to a height
RECURSIVE Available(_)
Available(candidate_streams) ==
    IF candidate_streams = <<>> THEN <<>>
    ELSE LET candidate == Head(candidate_streams)
             height == _resolution_to_int(candidate.resolution)
         IN  (IF height # NoHeight THEN <<[h |-> height, s |-> candidate]>> ELSE <<>>)
             \o Available(Tail(candidate_streams))

\* a sort that puts a pair before the pairs of its height already in place
InsertDescBefore(sorted, x) ==
    Call(LAMBDA k : SubSeq(sorted, 1, k) \o <<x>> \o SubSeq(sorted, k + 1, Len(sorted)),
         Cardinality({i \in 1..Len(sorted) : sorted[i].h > x.h}))

\* list.sort(key=lambda item: item[0], reverse=True): stable, highest first
InsertDesc(sorted, x) ==
    Call(LAMBDA k : SubSeq(sorted, 1, k) \o <<x>> \o SubSeq(sorted, k + 1, Len(sorted)),
         Cardinality({i \in 1..Len(sorted) : sorted[i].h >= x.h}))

RECURSIVE SortDesc(_)
SortDesc(available) ==
    IF available = <<>> THEN <<>>
    ELSE Call(LAMBDA sorted : InsertDesc(sorted, available[Len(available)]),
              SortDesc(SubSeq(available, 1, Len(available) - 1)))

\* next(... if h < requested_height ...): the ceiling itself is excluded
FirstStrictlyBelow(available, requested_height) ==
    LET hits == {i \in 1..Len(available) : available[i].h < requested_height}
    IN  IF hits # {} THEN available[CHOOSE i \in hits : \A j \in hits : i <= j]
        ELSE available[Len(available)]

\* next(((h, s) for h, s in available if h <= requested_height), available[-1])
FirstAtOrBelow(available, requested_height) ==
    LET hits == {i \in 1..Len(available) : available[i].h <= requested_height}
    IN  IF hits # {} THEN available[CHOOSE i \in hits : \A j \in hits : i <= j]
        ELSE available[Len(available)]

\* the body shared, line for line, by the two mp4 resolvers
SelectMp4(enumerated, normalized_quality, none_available) ==
    Call(LAMBDA requested_height :
           IF requested_height = NoHeight
           THEN Raise("ValueError", "For mp4, quality must be a value like 'NNNp'")
           ELSE IF enumerated.fault = "http"
           THEN Raise("ValueError", "YouTube request failed while fetching available streams")
           ELSE IF enumerated.fault = "other"
           THEN Raise("Exception", "provider fault")
           ELSE Call(LAMBDA available :
                       IF available = <<>>
                       THEN Raise("ValueError", none_available)
                       ELSE Call(LAMBDA sorted :
                                   Return(FirstAtOrBelow(sorted, requested_height)),
                                 SortDesc(available)),
                     Available(enumerated.streams)),
         _resolution_to_int(normalized_quality))

\* _select_progressive_mp4_stream(yt, normalized_quality)
_select_progressive_mp4_stream(yt, normalized_quality) ==
    SelectMp4(yt.progressive, normalized_quality,
              "No mp4 progressive streams are available for this video.")

\* an adaptive selection made among the progressive streams
_select_adaptive_among_progressive(yt, normalized_quality) ==
    SelectMp4(yt.progressive, normalized_quality,
              "No adaptive mp4 video streams are available for this video.")

\* _select_adaptive_mp4_stream(yt, normalized_quality)
_select_adaptive_mp4_stream(yt, normalized_quality) ==
    SelectMp4(yt.adaptive, normalized_quality,
              "No adaptive mp4 video streams are available for this video.")

\* order_by("abr").desc().first(): the stream of the highest bitrate (the digits of its
\* abr label), the first such in provider order; None (itag 0) when there is none
AbrKey(stream) ==
    LET digits == SelectSeq(stream.abr, LAMBDA c : c \in Digit)
    IN  IF digits = <<>> THEN 0 ELSE ToInt(digits)

NoStream == [itag |-> 0]

FirstByAbrDesc(streams) ==
    LET idx == {i \in 1..Len(streams) : streams[i].abr # NoLabel}
        best == {i \in idx : \A j \in idx : AbrKey(streams[j]) <= AbrKey(streams[i])}
    IN  IF idx = {} THEN NoStream
        ELSE streams[CHOOSE i \in best : \A j \in best : i <= j]

\* _select_best_audio_stream_for_mp4(yt)
_select_best_audio_stream_for_mp4(yt) ==
    IF yt.audio.fault = "http"
    THEN Raise("ValueError", "YouTube request failed while fetching available audio streams")
    ELSE IF yt.audio.fault = "other" THEN Raise("Exception", "provider fault")
    ELSE LET mp4_audio == SelectSeq(yt.audio.streams, LAMBDA s : s.mime_type = "audio/mp4")
             first == FirstByAbrDesc(mp4_audio)
             stream == IF first.itag = 0 THEN FirstByAbrDesc(yt.audio.streams) ELSE first
         IN  IF stream.itag = 0
             THEN Raise("ValueError", "No audio stream found for this video.")
             ELSE Return(stream)

\* a selection that takes the best stream there is when none has the bitrate asked for
_select_audio_stream_or_best(yt, normalized_quality) ==
    IF yt.audio.fault = "http"
    THEN Raise("ValueError", "YouTube request failed while fetching available audio streams")
    ELSE IF yt.audio.fault = "other" THEN Raise("Exception", "provider fault")
    ELSE LET exact == SelectSeq(yt.audio.streams, LAMBDA s : s.abr = normalized_quality)
             stream == IF exact = <<>> THEN FirstByAbrDesc(yt.audio.streams)
                       ELSE FirstByAbrDesc(exact)
         IN  IF stream.itag = 0
             THEN Raise("ValueError", "No audio stream found for quality")
             ELSE Return(stream)

\* _select_audio_stream(yt, normalized_quality)
_select_audio_stream(yt, normalized_quality) ==
    IF yt.audio.fault = "http"
    THEN Raise("ValueError", "YouTube request failed while fetching available audio streams")
    ELSE IF yt.audio.fault = "other" THEN Raise("Exception", "provider fault")
    ELSE LET exact == SelectSeq(yt.audio.streams, LAMBDA s : s.abr = normalized_quality)
             stream == FirstByAbrDesc(exact)
         IN  IF stream.itag = 0
             THEN Raise("ValueError", "No audio stream found for quality")
             ELSE Return(stream)

\* _resolve_ffmpeg_path(): FFMPEG_PATH if set (it must exist), else shutil.which("ffmpeg")
\* env_path: "unset", "exists" or "missing"; which: "found" or "none"
_resolve_ffmpeg_path(env_path, which) ==
    IF env_path = "exists" THEN Return("FFMPEG_PATH")
    ELSE IF env_path = "missing"
    THEN Raise("ValueError", "FFMPEG_PATH was set but the file does not exist.")
    ELSE IF which = "found" THEN Return("which ffmpeg")
    ELSE Raise("ValueError", "ffmpeg is required to merge high-quality mp4 streams, but it was not found.")

-----------------------------------------------------------------------------
(* File names *)

ReplaceSeparators(s) == [i \in 1..Len(s) |-> IF s[i] \in {"/", "\\"} THEN "_" ELSE s[i]]

\* " ".join(cleaned.split())
RECURSIVE CollapseSpaces(_)
CollapseSpaces(s) ==
    IF Len(s) < 2 THEN s
    ELSE IF s[1] = " " /\ s[2] = " " THEN CollapseSpaces(Tail(s))
    ELSE <<s[1]>> \o CollapseSpaces(Tail(s))

\* pathlib's Path(name).stem, for a name without separators
PathStem(name) ==
    LET dots == {i \in 1..Len(name) : name[i] = "."}
        i == IF dots = {} THEN 0 ELSE CHOOSE d \in dots : \A e \in dots : e <= d
    IN  IF name = <<".">> THEN <<>>
        ELSE IF 1 < i /\ i < Len(name) THEN SubSeq(name, 1, i - 1)
        ELSE name

Download == <<"d", "o", "w", "n", "l", "o", "a", "d">>

\* _build_safe_filename(file_name)
_build_safe_filename(file_name) ==
    Call(LAMBDA cleaned :
           IF cleaned = <<>>
           THEN Raise("ValueError", "name must contain at least one non-space character")
           ELSE Return(IF PathStem(cleaned) = <<>> THEN Download ELSE PathStem(cleaned)),
         Strip(CollapseSpaces(ReplaceSeparators(Strip(file_name)))))

DotMp4 == <<".">> \o Mp4
DotMp3 == <<".">> \o Mp3

\* f"{stem} ({counter}){suffix}"
Numbered(stem, counter, suffix) ==
    stem \o <<" ", "(">> \o IntToStr(counter) \o <<")">> \o suffix

RECURSIVE UniqueFrom(_, _, _, _)
UniqueFrom(existing, stem, suffix, counter) ==
    IF Numbered(stem, counter, suffix) \notin existing
    THEN Numbered(stem, counter, suffix)
    ELSE UniqueFrom(existing, stem, suffix, counter + 1)

\* a path computation that does not look at the directory
_resolve_path_unchecked(existing, stem, suffix) == stem \o suffix

\* _resolve_unique_path(directory, stem, suffix), the directory given by the names in it.
\* The loop's exists() calls are taken at one instant: files are only ever added to the
\* destination directory, so the loop returns what it would return if run at the instant
\* of its last exists() call.
_resolve_unique_path(existing, stem, suffix) ==
    IF (stem \o suffix) \notin existing THEN stem \o suffix
    ELSE UniqueFrom(existing, stem, suffix, 1)

-----------------------------------------------------------------------------
(* The registry and the threads *)

TaskIds == 1..MaxTasks

Terminal == {"completed", "failed"}

\* retention_seconds = max(60, TASK_RETENTION_MINUTES * 60)
RetentionFloor == 60

\* interval_seconds = max(10, TASK_CLEANUP_INTERVAL_SECONDS)
IntervalFloor == 10

\* dict.update: the keys of upd set in dict d, its other keys kept
SetKeys(d, upd) ==
    [k \in DOMAIN d \cup DOMAIN upd |-> IF k \in DOMAIN upd THEN upd[k] ELSE d[k]]

\* jobs[task_id] = record, for a task_id that may be new
Put(registry, task_id, record) ==
    [k \in DOMAIN registry \cup {task_id} |-> IF k = task_id THEN record ELSE registry[k]]

IsBatch(payload) == "videos" \in DOMAIN payload

\* the locals of _download_with_pytube that outlive one step of it
NoFrame ==
    [requested_format |-> <<>>, normalized_quality |-> <<>>, requested_height |-> NoHeight,
     safe_stem |-> <<>>, progressive |-> "not tried", selected_height |-> NoHeight,
     actual_quality |-> <<>>, output_path |-> <<>>, did |-> {}]

\* a worker thread at its first statement
NewWorker(payload) ==
    [pc |-> "start", payload |-> payload, index |-> 0, item_results |-> <<>>,
     completed_count |-> 0, failed_count |-> 0, invoked |-> <<>>,
     frame |-> NoFrame, outcome |-> Return([name |-> <<>>])]

IdleProbe == [op |-> "none"]

\* TASK_RETENTION_MINUTES: int(os.getenv("TASK_RETENTION_MINUTES", "30")), here as set
\* where the environment is not drawn
TASK_RETENTION_MINUTES == 1

\* TASK_CLEANUP_INTERVAL_SECONDS: int(os.getenv("TASK_CLEANUP_INTERVAL_SECONDS", "60"))
TASK_CLEANUP_INTERVAL_SECONDS == 60

\* a with block that does not give the lock back
HeldOn(lock, thread) == lock

\* with jobs_lock: the thread has the lock
Acquired(lock, thread) == lock \cup {thread}

\* the end of the with block, reached normally or by an exception
Released(lock, thread) == lock \ {thread}

\* a with jobs_lock block that is one step of its thread
WithBlock(lock, thread) == Released(Acquired(lock, thread), thread)

\* the threads that take jobs_lock
Handler(task_id) == <<"handler", task_id>>

Worker(task_id) == <<"worker", task_id>>

Client(c) == <<"client", c>>

CleanupThread == <<"cleanup", 0>>

\* jobs_lock is held across steps only by a worker between the assignments of its
\* terminal write, where a specification takes them one at a time
Locked == jobs_lock # {}

\* the requests other than the accepted POSTs that the handlers serve at one time
Clients == 1..MaxClients

\* the cleanup thread before _ensure_cleanup_thread_started() has run, with the two
\* settings it will read; printed: "[Cleanup Thread Error] ..." is on the output
NotStarted(retention_minutes, cleanup_interval) ==
    [started |-> FALSE, pc |-> "none", retention_minutes |-> retention_minutes,
     cleanup_interval |-> cleanup_interval, retention_seconds |-> 0,
     interval_seconds |-> 0, slept_at |-> 0, now |-> 0,
     launched |-> 0, cleanup_lock |-> {}, printed |-> FALSE]

\* a cleanup thread whose retention has no floor
EnsureStartedNoFloor(cleanup, time) ==
    IF cleanup.started THEN cleanup
    ELSE [cleanup EXCEPT
            !.started = TRUE,
            !.launched = 1,
            !.pc = "sleep",
            !.retention_seconds = cleanup.retention_minutes * 60,
            !.interval_seconds =
                IF cleanup.cleanup_interval > IntervalFloor
                THEN cleanup.cleanup_interval ELSE IntervalFloor,
            !.slept_at = time]

\* a cleanup thread whose interval has no floor and is never negative
EnsureStartedNoPause(cleanup, time) ==
    IF cleanup.started THEN cleanup
    ELSE [cleanup EXCEPT
            !.started = TRUE,
            !.launched = 1,
            !.pc = "sleep",
            !.retention_seconds =
                IF cleanup.retention_minutes * 60 > RetentionFloor
                THEN cleanup.retention_minutes * 60 ELSE RetentionFloor,
            !.interval_seconds =
                IF cleanup.cleanup_interval > 0 THEN cleanup.cleanup_interval ELSE 0,
            !.slept_at = time]

\* _ensure_cleanup_thread_started() as one step, which it is for all but its other
\* callers: under cleanup_lock the thread is started unless the flag is set; the
\* thread computes its retention (at least 60 seconds) and its interval (at least 10
\* seconds) and goes to sleep at the time of its start
EnsureStarted(cleanup, time) ==
    IF cleanup.started THEN cleanup
    ELSE [cleanup EXCEPT
            !.started = TRUE,
            !.launched = 1,
            !.pc = "sleep",
            !.retention_seconds =
                IF cleanup.retention_minutes * 60 > RetentionFloor
                THEN cleanup.retention_minutes * 60 ELSE RetentionFloor,
            !.interval_seconds =
                IF cleanup.cleanup_interval > IntervalFloor
                THEN cleanup.cleanup_interval ELSE IntervalFloor,
            !.slept_at = time]

\* task_counts of health(): the tasks of each status among `statuses`, and their number
Counts(statuses) ==
    [queued |-> Cardinality({t \in DOMAIN statuses : statuses[t] = "queued"}),
     in_progress |-> Cardinality({t \in DOMAIN statuses : statuses[t] = "in_progress"}),
     completed |-> Cardinality({t \in DOMAIN statuses : statuses[t] = "completed"}),
     failed |-> Cardinality({t \in DOMAIN statuses : statuses[t] = "failed"}),
     total |-> Cardinality(DOMAIN statuses)]

\* the requests of health() in flight, each with the counts of the registry states
\* there have been since it arrived (`during`)
Witnessed(requests, registry) ==
    [c \in DOMAIN requests |->
        IF requests[c].kind = "health" /\ requests[c].pc # "responded"
        THEN [requests[c] EXCEPT
                !.during = @ \cup {Counts([t \in DOMAIN registry |-> registry[t].status])}]
        ELSE requests[c]]

Init ==
    /\ jobs = <<>>
    /\ nextId = 0
    /\ req = <<>>
    /\ wk = <<>>
    /\ fs \in {{}, {<<"a">> \o DotMp4}}
    /\ tmp = {}
    /\ probe = IdleProbe
    /\ now = 0
    /\ sweeper = NotStarted(TASK_RETENTION_MINUTES, TASK_CLEANUP_INTERVAL_SECONDS)
    /\ detached = <<>>
    /\ jobs_lock = {}
    /\ clients = <<>>

-----------------------------------------------------------------------------
(* download(): POST /api/download *)

\* updated_at written at the creation of the record only
UpdatedAtCreation(record, time) ==
    IF "updated_at" \in DOMAIN record THEN record
    ELSE SetKeys(record, [updated_at |-> time])

\* jobs[task_id]["updated_at"] = _utc_iso(), the clock read at the write
Updated(record, time) == SetKeys(record, [updated_at |-> time])

\* a record created as if its worker were already at work
NewTaskInProgress(task_id) == [task_id |-> task_id, status |-> "in_progress"]

\* the record download() creates: jobs[task_id] = {"task_id": task_id, "status": "queued", ...}
NewTask(task_id) == [task_id |-> task_id, status |-> "queued"]

\* download(), from validation to the creation of the task record under jobs_lock
Accept(payloads, limit) ==
    /\ nextId < limit
    /\ ~Locked
    /\ \E payload \in payloads :
          LET task_id == nextId + 1
          IN  /\ nextId' = task_id
              /\ jobs' = Put(jobs, task_id, Updated(NewTask(task_id), now))
              /\ req' = Put(req, task_id, [pc |-> "created", payload |-> payload])
    /\ sweeper' = EnsureStarted(sweeper, now)
    /\ clients' = Witnessed(clients, jobs')
    /\ jobs_lock' = WithBlock(jobs_lock, Handler(nextId + 1))
    /\ UNCHANGED <<wk, fs, tmp, probe, now, detached>>

\* download(): Thread(target=_download_worker, ...).start() succeeds; the response is 202
StartWorker(task_id) ==
    /\ task_id \in DOMAIN req
    /\ req[task_id].pc = "created"
    /\ wk' = Put(wk, task_id, NewWorker(req[task_id].payload))
    /\ req' = [req EXCEPT ![task_id].pc = "202"]
    /\ UNCHANGED <<jobs, nextId, fs, tmp, probe, now, sweeper, detached, clients, jobs_lock>>

\* a record left as it was when download() could not start its worker
MarkStartFailedNowhere(record) == record

\* a start failure after which the task is written but left queued
MarkStartQueued(record) ==
    SetKeys(record, [status |-> "queued", error |-> "Failed to start download worker"])

\* the task's record after download() could not start its worker
MarkStartFailed(record) ==
    SetKeys(record, [status |-> "failed", error |-> "Failed to start download worker"])

\* jobs[task_id]["finished_at_unix"] = time.time()
Finished(record, time) == SetKeys(record, [finished_at_unix |-> time])

\* a download() that marks the task failed although its worker runs
StartWorkerFailsButRuns(task_id) ==
    /\ task_id \in DOMAIN req
    /\ req[task_id].pc = "created"
    /\ ~Locked
    /\ jobs' = [jobs EXCEPT ![task_id] = Finished(Updated(MarkStartFailed(@), now), now)]
    /\ req' = [req EXCEPT ![task_id].pc = "500"]
    /\ wk' = Put(wk, task_id, NewWorker(req[task_id].payload))
    /\ clients' = Witnessed(clients, jobs')
    /\ jobs_lock' = WithBlock(jobs_lock, Handler(task_id))
    /\ UNCHANGED <<nextId, fs, tmp, probe, now, sweeper, detached>>

\* download(): Thread.start() raises; the task is marked failed and the response is 500
StartWorkerFails(task_id) ==
    /\ task_id \in DOMAIN req
    /\ req[task_id].pc = "created"
    /\ ~Locked
    /\ jobs' = [jobs EXCEPT ![task_id] = Finished(Updated(MarkStartFailed(@), now), now)]
    /\ req' = [req EXCEPT ![task_id].pc = "500"]
    /\ clients' = Witnessed(clients, jobs')
    /\ jobs_lock' = WithBlock(jobs_lock, Handler(task_id))
    /\ UNCHANGED <<nextId, wk, fs, tmp, probe, now, sweeper, detached>>

-----------------------------------------------------------------------------
(* _download_worker *)

\* a worker that does not announce itself
MarkNothing(record) == record

\* a worker's first write, under jobs_lock
MarkInProgress(record) == SetKeys(record, [status |-> "in_progress"])

\* _download_worker: mark the task as in progress
WorkerStart(task_id) ==
    /\ task_id \in DOMAIN wk
    /\ wk[task_id].pc = "start"
    /\ ~Locked
    /\ jobs' = [jobs EXCEPT ![task_id] = Updated(MarkInProgress(@), now)]
    /\ wk' = [wk EXCEPT ![task_id].pc = "call"]
    /\ clients' = Witnessed(clients, jobs')
    /\ jobs_lock' = WithBlock(jobs_lock, Worker(task_id))
    /\ UNCHANGED <<nextId, req, fs, tmp, probe, now, sweeper, detached>>

\* the item the worker is at: videos[index] of a batch, the payload itself otherwise
CurrentItem(w) ==
    IF IsBatch(w.payload) THEN w.payload.videos[w.index + 1] ELSE w.payload

\* the per-item outcome a batch worker appends to item_results
ItemOutcome(index, outcome) ==
    IF outcome.raised
    THEN [index |-> index, status |-> "failed", error |-> outcome.msg]
    ELSE [index |-> index, status |-> "completed", result |-> outcome.value]

\* except Exception, with the handler forgotten for all but ValueError
CaughtOnlyValueError(kind) == kind = "ValueError"

\* except Exception as exc: every exception the orchestrator can raise is an Exception
CaughtByWorker(kind) == kind \in {"ValueError", "Exception"}

\* a batch worker that leaves its loop at the first item that fails
AfterCallStopsAtFailure(w, frame, outcome) ==
    IF IsBatch(w.payload)
    THEN [w EXCEPT
            !.item_results = Append(@, ItemOutcome(w.index, outcome)),
            !.completed_count = IF outcome.raised THEN @ ELSE @ + 1,
            !.failed_count = IF outcome.raised THEN @ + 1 ELSE @,
            !.index = @ + 1,
            !.frame = frame,
            !.pc = IF w.index + 1 < Len(w.payload.videos) /\ ~outcome.raised
                   THEN "call" ELSE "finish"]
    ELSE [w EXCEPT !.outcome = outcome, !.frame = frame, !.pc = "finish"]

\* a batch worker that goes on to the next item without an outcome for the one that
\* raised
AfterCallDropsFailure(w, frame, outcome) ==
    IF IsBatch(w.payload)
    THEN [w EXCEPT
            !.item_results = IF outcome.raised THEN @ ELSE Append(@, ItemOutcome(w.index, outcome)),
            !.completed_count = IF outcome.raised THEN @ ELSE @ + 1,
            !.failed_count = IF outcome.raised THEN @ + 1 ELSE @,
            !.index = @ + 1,
            !.frame = frame,
            !.pc = IF w.index + 1 < Len(w.payload.videos) THEN "call" ELSE "finish"]
    ELSE [w EXCEPT !.outcome = outcome, !.frame = frame, !.pc = "finish"]

\* The worker once _download_with_pytube has returned or raised `outcome` with the
\* locals `frame`: a batch worker records the item and goes on to the next one,
\* a single-item worker goes to its terminal write.  An exception that no except
\* clause catches ends the thread ("crashed").
AfterCall(w, frame, outcome) ==
    IF outcome.raised /\ ~CaughtByWorker(outcome.kind)
    THEN [w EXCEPT !.outcome = outcome, !.frame = frame, !.pc = "crashed"]
    ELSE IF IsBatch(w.payload)
    THEN [w EXCEPT
            !.item_results = Append(@, ItemOutcome(w.index, outcome)),
            !.completed_count = IF outcome.raised THEN @ ELSE @ + 1,
            !.failed_count = IF outcome.raised THEN @ + 1 ELSE @,
            !.index = @ + 1,
            !.frame = frame,
            !.pc = IF w.index + 1 < Len(w.payload.videos) THEN "call" ELSE "finish"]
    ELSE [w EXCEPT !.outcome = outcome, !.frame = frame, !.pc = "finish"]

\* the worker inside _download_with_pytube, at step pc of it
Proceed(w, frame, pc) == [w EXCEPT !.frame = frame, !.pc = pc]

\* a summary whose total counts the completed items only
BatchResultTotalOfCompleted(w) ==
    [items |-> w.item_results,
     summary |-> [total |-> w.completed_count,
                  completed |-> w.completed_count,
                  failed |-> w.failed_count]]

\* the batch result written by the terminal write of a batch worker
BatchResult(w) ==
    [items |-> w.item_results,
     summary |-> [total |-> Len(w.payload.videos),
                  completed |-> w.completed_count,
                  failed |-> w.failed_count]]

\* a terminal write that sets the status alone
TerminalWriteStatusOnly(w) ==
    IF IsBatch(w.payload) THEN [status |-> "completed"]
    ELSE IF w.outcome.raised THEN [status |-> "failed"]
    ELSE [status |-> "completed"]

\* a terminal write that fails a batch none of whose items completed
TerminalWriteFailsBatch(w) ==
    IF IsBatch(w.payload) /\ w.completed_count = 0
    THEN [status |-> "failed", error |-> "all items failed"]
    ELSE IF IsBatch(w.payload) THEN [status |-> "completed", result |-> BatchResult(w)]
    ELSE IF w.outcome.raised THEN [status |-> "failed", error |-> w.outcome.msg]
    ELSE [status |-> "completed", result |-> w.outcome.value]

\* a terminal write that records a failure without its message
TerminalWriteSwallowsError(w) ==
    IF IsBatch(w.payload) THEN [status |-> "completed", result |-> BatchResult(w)]
    ELSE IF w.outcome.raised THEN [status |-> "failed", error |-> "Unknown error"]
    ELSE [status |-> "completed", result |-> w.outcome.value]

\* a terminal write that puts the task back in the queue
TerminalWriteRequeues(w) == [status |-> "queued"]

\* the keys a worker's terminal write sets
TerminalWrite(w) ==
    IF IsBatch(w.payload) THEN [status |-> "completed", result |-> BatchResult(w)]
    ELSE IF w.outcome.raised THEN [status |-> "failed", error |-> w.outcome.msg]
    ELSE [status |-> "completed", result |-> w.outcome.value]

\* _download_worker: the terminal write, under jobs_lock
WorkerFinish(task_id) ==
    /\ task_id \in DOMAIN wk
    /\ wk[task_id].pc = "finish"
    /\ ~Locked
    /\ jobs' = [jobs EXCEPT ![task_id] =
                    Finished(Updated(SetKeys(@, TerminalWrite(wk[task_id])), now), now)]
    /\ wk' = [wk EXCEPT ![task_id].pc = "done"]
    /\ clients' = Witnessed(clients, jobs')
    /\ jobs_lock' = WithBlock(jobs_lock, Worker(task_id))
    /\ UNCHANGED <<nextId, req, fs, tmp, probe, now, sweeper, detached>>

-----------------------------------------------------------------------------
(* _download_with_pytube, step by step.  A step's result is either the next step *)
(* (Goto) or the end of the call (Done) with what it returned or raised.         *)

Goto(pc, frame) == [pc |-> pc, frame |-> frame, outcome |-> Return([name |-> <<>>])]

Done(frame, outcome) == [pc |-> "return", frame |-> frame, outcome |-> outcome]

Step(w, r) ==
    Call(LAMBDA at : IF at.pc = "return" THEN AfterCall(w, at.frame, at.outcome)
                     ELSE Proceed(w, at.frame, at.pc),
         r)

ALLOWED_FORMATS == {Mp4, Mp3}

\* the height above which mp4 is fetched as adaptive streams and merged
ProgressiveCeiling == 720

\* payload.get("name", payload.get("file_name", ""))
RequestedName(payload) ==
    IF "name" \in DOMAIN payload THEN payload.name
    ELSE IF "file_name" \in DOMAIN payload THEN payload.file_name
    ELSE <<>>

\* the result descriptor of a download written to output_path
Descriptor(frame, output_path) ==
    [name |-> PathStem(output_path),
     format |-> frame.requested_format,
     requested_quality |-> frame.normalized_quality,
     actual_quality |-> frame.actual_quality,
     save_path |-> output_path]

Merged(descriptor) == SetKeys(descriptor, [merge |-> "ffmpeg"])

\* a strategy that never tries the progressive resolver
StrategyAlwaysAdaptive(frame, yt) ==
    Goto("a_select", [frame EXCEPT !.progressive = "not tried"])

\* a strategy that tries the progressive resolver whatever the requested height
StrategyProgressiveFirst(frame, yt) ==
    Call(LAMBDA selected :
           IF selected.raised
           THEN Goto("a_select", [frame EXCEPT !.progressive = "failed"])
           ELSE Goto("p_unique",
                     [frame EXCEPT !.progressive = "selected",
                                   !.selected_height = selected.value.h,
                                   !.actual_quality = IntToStr(selected.value.h) \o SuffixP]),
         _select_progressive_mp4_stream(yt, frame.normalized_quality))

\* The mp4 branch up to the choice of strategy: adaptive above the ceiling, else
\* progressive selection, with a fallback to adaptive when it raises ValueError.
Strategy(frame, yt) ==
    IF frame.requested_height > ProgressiveCeiling
    THEN Goto("a_select", [frame EXCEPT !.progressive = "not tried"])
    ELSE Call(LAMBDA selected :
                IF selected.raised /\ selected.kind = "ValueError"
                THEN Goto("a_select", [frame EXCEPT !.progressive = "failed"])
                ELSE IF selected.raised
                THEN Done([frame EXCEPT !.progressive = "failed"], selected)
                ELSE Goto("p_unique",
                          [frame EXCEPT !.progressive = "selected",
                                        !.selected_height = selected.value.h,
                                        !.actual_quality = IntToStr(selected.value.h) \o SuffixP]),
              _select_progressive_mp4_stream(yt, frame.normalized_quality))

\* The fields of an item whose JSON value is not a string (a number, null, ...).
\* The item keeps such a value as str() renders it and names the field here.
NotStrings(payload) ==
    IF "not_strings" \in DOMAIN payload THEN payload.not_strings ELSE {}

\* payload["video_link"].strip(), payload["format"].strip(), payload["quality"].strip(),
\* payload["folder"].strip(): the fields on which the call raises AttributeError
StripsThatRaise(payload) ==
    NotStrings(payload) \cap {"video_link", "format", "quality", "folder"}

\* _download_with_pytube from its first line to the choice of the stream(s) to fetch.
\* world: what the filesystem and the provider answer during these lines.
Prepare(payload, world) ==
    IF StripsThatRaise(payload) # {}
    THEN Done(NoFrame, Raise("Exception", "object has no attribute 'strip'"))
    ELSE
    LET requested_format == Lower(Strip(payload.format))
        quality == Strip(payload.quality)
        requested_name == Strip(RequestedName(payload))
        save_name == IF requested_name # <<>> THEN requested_name ELSE world.title.value
    IN  Call(LAMBDA normalized_quality : Call(LAMBDA safe_stem :
          LET frame == [NoFrame EXCEPT !.requested_format = requested_format,
                                       !.normalized_quality = normalized_quality]
              named == [frame EXCEPT !.safe_stem = safe_stem.value,
                                     !.requested_height = _resolution_to_int(normalized_quality)]
              audio == _select_audio_stream(world.yt, normalized_quality)
          IN  IF requested_format \notin ALLOWED_FORMATS
              THEN Done(NoFrame, Raise("ValueError", "format must be either 'mp4' or 'mp3'"))
              ELSE IF world.mkdir = "oserror"
              THEN Done(frame, Raise("ValueError", "Cannot create or access download folder"))
              ELSE IF world.mkdir = "invalid"
              THEN Done(frame, Raise("ValueError", "Invalid folder path"))
              ELSE IF world.client = "http"
              THEN Done(frame, Raise("ValueError", "YouTube request failed while preparing the download"))
              ELSE IF world.client = "other"
              THEN Done(frame, Raise("ValueError", "Failed to load YouTube video"))
              ELSE IF world.title.fault = "http"
              THEN Done(frame, Raise("ValueError", "YouTube request failed while reading video metadata"))
              ELSE IF world.title.fault = "other"
              THEN Done(frame, Raise("Exception", "provider fault"))
              ELSE IF safe_stem.raised THEN Done(frame, safe_stem)
              ELSE IF requested_format = Mp4
              THEN IF named.requested_height = NoHeight
                   THEN Done(named, Raise("ValueError", "For mp4, quality must be a value like '720p'"))
                   ELSE Strategy(named, world.yt)
              ELSE IF audio.raised THEN Done(named, audio)
              ELSE Goto("m_unique",
                        [named EXCEPT !.actual_quality =
                            IF audio.value.abr \in {NoLabel, <<>>} THEN normalized_quality
                            ELSE audio.value.abr]),
          _build_safe_filename(save_name)),
          _normalize_quality(quality, requested_format))

\* an adaptive branch that selects its two streams before it resolves the muxer
SelectAdaptiveMuxerLast(frame, world) ==
    Call(LAMBDA video :
      IF video.raised
      THEN Done([frame EXCEPT !.did = @ \cup {"video"}], video)
      ELSE Call(LAMBDA audio :
        IF audio.raised
        THEN Done([frame EXCEPT !.did = @ \cup {"video", "audio"}], audio)
        ELSE Call(LAMBDA ffmpeg_path :
          IF ffmpeg_path.raised
          THEN Done([frame EXCEPT !.did = @ \cup {"ffmpeg", "video", "audio"},
                                  !.selected_height = video.value.h], ffmpeg_path)
          ELSE Goto("a_tmp",
                    [frame EXCEPT !.did = @ \cup {"ffmpeg", "video", "audio"},
                                  !.selected_height = video.value.h,
                                  !.actual_quality = IntToStr(video.value.h) \o SuffixP]),
          _resolve_ffmpeg_path(world.ffmpeg_env, world.which)),
        _select_best_audio_stream_for_mp4(world.yt)),
      _select_adaptive_mp4_stream(world.yt, frame.normalized_quality))

\* the adaptive branch: muxer resolution, then the video-only and the audio selection
SelectAdaptive(frame, world) ==
    Call(LAMBDA ffmpeg_path :
      IF ffmpeg_path.raised
      THEN Done([frame EXCEPT !.did = @ \cup {"ffmpeg"}], ffmpeg_path)
      ELSE Call(LAMBDA video :
        IF video.raised
        THEN Done([frame EXCEPT !.did = @ \cup {"ffmpeg", "video"}], video)
        ELSE Call(LAMBDA audio :
          IF audio.raised
          THEN Done([frame EXCEPT !.did = @ \cup {"ffmpeg", "video", "audio"}], audio)
          ELSE Goto("a_tmp",
                    [frame EXCEPT !.did = @ \cup {"ffmpeg", "video", "audio"},
                                  !.selected_height = video.value.h,
                                  !.actual_quality = IntToStr(video.value.h) \o SuffixP]),
          _select_best_audio_stream_for_mp4(world.yt)),
        _select_adaptive_mp4_stream(world.yt, frame.normalized_quality)),
      _resolve_ffmpeg_path(world.ffmpeg_env, world.which))

\* the except clauses around a download: what is raised for a fault of the given kind
Wrapped(fault, http, oserror, other) ==
    IF fault = "http" THEN Raise("ValueError", http)
    ELSE IF fault = "oserror" THEN Raise("ValueError", oserror)
    ELSE Raise("ValueError", other)

Mp4Fault(fault) ==
    Wrapped(fault, "YouTube rejected the mp4 stream download request.",
            "Cannot write mp4 file", "Unexpected error downloading mp4 stream")

AdaptiveFault(fault) ==
    Wrapped(fault, "YouTube rejected the high-quality mp4 stream download request.",
            "Cannot write mp4 file", "Unexpected error downloading high-quality mp4 stream")

Mp3Fault(fault) ==
    Wrapped(fault, "YouTube rejected the audio stream download request.",
            "Cannot write mp3 file", "Unexpected error downloading audio stream")

-----------------------------------------------------------------------------
(* What the provider, the filesystem and the muxer may answer *)

Label(height) == IntToStr(height) \o SuffixP

Abr(rate) == IntToStr(rate) \o SuffixKbps

AudioEnumerated(streams) ==
    [fault |-> "none",
     streams |-> [i \in 1..Len(streams) |->
                    [itag |-> i, abr |-> streams[i][1], mime_type |-> streams[i][2]]]]

Title == <<"t">>

\* every answer the model draws
FullEnv ==
    [mkdir |-> {"ok", "oserror", "invalid"},
     client |-> {"ok", "http", "other"},
     title |-> {[fault |-> "none", value |-> Title], [fault |-> "http", value |-> <<>>],
                [fault |-> "other", value |-> <<>>]},
     progressive |-> {Enumerated(<<Label(720), Label(360)>>), Enumerated(<<Label(1080)>>),
                      Enumerated(<<NoLabel>>), EnumFault("http"), EnumFault("other")},
     adaptive |-> {Enumerated(<<Label(1080), Label(720), Label(144)>>),
                   Enumerated(<<>>), EnumFault("http"), EnumFault("other")},
     audio |-> {AudioEnumerated(<<<<Abr(128), "audio/mp4">>, <<Abr(160), "audio/webm">>>>),
                AudioEnumerated(<<<<Abr(160), "audio/webm">>>>),
                AudioEnumerated(<<>>), EnumFault("http"), EnumFault("other")},
     ffmpeg_env |-> {"unset", "exists", "missing"},
     which |-> {"found", "none"},
     tmpdir |-> {"ok", "oserror"},
     download |-> {"ok", "http", "oserror", "other"},
     partial |-> BOOLEAN,
     merge |-> {"ok", "not found", "failed"},
     move |-> {"same path", "moved", "oserror"}]

\* the answers of a provider and a filesystem where only downloads fail
LeanEnv ==
    [FullEnv EXCEPT
        !.mkdir = {"ok"}, !.client = {"ok"},
        !.title = {[fault |-> "none", value |-> Title]},
        !.progressive = {Enumerated(<<Label(720), Label(360)>>)},
        !.adaptive = {Enumerated(<<Label(1080), Label(720), Label(144)>>)},
        !.audio = {AudioEnumerated(<<<<Abr(128), "audio/mp4">>>>)},
        !.ffmpeg_env = {"unset"}, !.which = {"found"}, !.tmpdir = {"ok"},
        !.download = {"ok", "http"}, !.partial = {FALSE},
        !.merge = {"ok"}, !.move = {"same path"}]

\* the answers of a provider and a filesystem where nothing fails; a task fails
\* there only if its worker thread could not be started or no stream can be selected
CalmEnv == [LeanEnv EXCEPT !.download = {"ok"}]

\* the answers when nothing fails and the provider offers its first stream lists
Fine(env) ==
    [mkdir |-> "ok", client |-> "ok", title |-> [fault |-> "none", value |-> Title],
     ffmpeg_env |-> "unset", which |-> "found",
     yt |-> [progressive |-> Enumerated(<<Label(720), Label(360)>>),
             adaptive |-> Enumerated(<<Label(1080), Label(720), Label(144)>>),
             audio |-> AudioEnumerated(<<<<Abr(128), "audio/mp4">>>>)]]

\* The answers to the calls of Prepare.  The calls are made in sequence and the first
\* fault ends them, so one answer at a time departs from Fine: the answers to calls
\* that are not made are no input.
Worlds(env) ==
    {[Fine(env) EXCEPT !.mkdir = a] : a \in env.mkdir}
    \cup {[Fine(env) EXCEPT !.client = a] : a \in env.client}
    \cup {[Fine(env) EXCEPT !.title = a] : a \in env.title}
    \cup {[Fine(env) EXCEPT !.yt.progressive = a] : a \in env.progressive}
    \cup {[Fine(env) EXCEPT !.yt.audio = a] : a \in env.audio}

\* the answers to the calls of SelectAdaptive, in the same way
AdaptiveWorlds(env) ==
    {[Fine(env) EXCEPT !.ffmpeg_env = a, !.which = b] : a \in env.ffmpeg_env, b \in env.which}
    \cup {[Fine(env) EXCEPT !.yt.adaptive = a] : a \in env.adaptive}
    \cup {[Fine(env) EXCEPT !.yt.audio = a] : a \in env.audio}

-----------------------------------------------------------------------------
(* The steps of _download_with_pytube as actions of the worker that is inside it *)

At(task_id, pc) == task_id \in DOMAIN wk /\ wk[task_id].pc = pc

\* the call begins: everything up to the choice of the stream(s) to fetch
Begin(task_id, worlds) ==
    /\ At(task_id, "call")
    /\ \E world \in worlds :
          LET w == [wk[task_id] EXCEPT !.invoked = Append(@, wk[task_id].index)]
          IN  wk' = [wk EXCEPT ![task_id] = Step(w, Prepare(CurrentItem(w), world))]
    /\ UNCHANGED <<jobs, nextId, req, fs, tmp, probe, now, sweeper, detached, clients, jobs_lock>>

OrchBegin(task_id, env) == Begin(task_id, Worlds(env))

\* progressive: output_path = _resolve_unique_path(save_dir, safe_stem, ".mp4")
ProgressiveUnique(task_id) ==
    /\ At(task_id, "p_unique")
    /\ LET w == wk[task_id]
           path == _resolve_unique_path(fs, w.frame.safe_stem, DotMp4)
       IN  wk' = [wk EXCEPT ![task_id] =
                     Proceed(w, [w.frame EXCEPT !.output_path = path], "p_download")]
    /\ UNCHANGED <<jobs, nextId, req, fs, tmp, probe, now, sweeper, detached, clients, jobs_lock>>

\* progressive: stream.download(...) and the return of the descriptor
ProgressiveDownload(task_id, env) ==
    /\ At(task_id, "p_download")
    /\ \E fault \in env.download, partial \in env.partial :
          LET w == wk[task_id]
              path == w.frame.output_path
          IN  IF fault = "ok"
              THEN /\ fs' = fs \cup {path}
                   /\ wk' = [wk EXCEPT ![task_id] =
                                Step(w, Done(w.frame, Return(Descriptor(w.frame, path))))]
              ELSE /\ fs' = IF partial THEN fs \cup {path} ELSE fs
                   /\ wk' = [wk EXCEPT ![task_id] = Step(w, Done(w.frame, Mp4Fault(fault)))]
    /\ UNCHANGED <<jobs, nextId, req, tmp, probe, now, sweeper, detached, clients, jobs_lock>>

\* adaptive: _resolve_ffmpeg_path(), then the two selections
Adaptive(task_id, worlds) ==
    /\ At(task_id, "a_select")
    /\ \E world \in worlds :
          wk' = [wk EXCEPT ![task_id] = Step(@, SelectAdaptive(wk[task_id].frame, world))]
    /\ UNCHANGED <<jobs, nextId, req, fs, tmp, probe, now, sweeper, detached, clients, jobs_lock>>

AdaptiveSelect(task_id, env) == Adaptive(task_id, AdaptiveWorlds(env))

\* a with block whose end leaves the directory where it is
LeftBehind(scratch, task_id) == scratch

\* the end of the with tempfile.TemporaryDirectory(...) block, reached normally or by
\* an exception: __exit__ removes the directory and all that is in it
Removed(scratch, task_id) == scratch \ {task_id}

\* adaptive: with tempfile.TemporaryDirectory(...) is entered
MakeScratch(task_id, env) ==
    /\ At(task_id, "a_tmp")
    /\ \E answer \in env.tmpdir :
          LET w == wk[task_id]
              frame == [w.frame EXCEPT !.did = @ \cup {"scratch"}]
          IN  IF answer = "ok"
              THEN /\ tmp' = tmp \cup {task_id}
                   /\ wk' = [wk EXCEPT ![task_id] = Proceed(w, frame, "a_video")]
              ELSE /\ tmp' = tmp
                   /\ wk' = [wk EXCEPT ![task_id] =
                                Step(w, Done(frame, AdaptiveFault("oserror")))]
    /\ UNCHANGED <<jobs, nextId, req, fs, probe, now, sweeper, detached, clients, jobs_lock>>

\* adaptive: one of the two downloads into the scratch directory; a fault leaves the
\* with block, which removes the directory
FetchInto(task_id, env, pc, next) ==
    /\ At(task_id, pc)
    /\ \E fault \in env.download :
          LET w == wk[task_id]
          IN  IF fault = "ok"
              THEN /\ tmp' = tmp
                   /\ wk' = [wk EXCEPT ![task_id] = Proceed(w, w.frame, next)]
              ELSE /\ tmp' = Removed(tmp, task_id)
                   /\ wk' = [wk EXCEPT ![task_id] =
                                Step(w, Done(w.frame, AdaptiveFault(fault)))]
    /\ UNCHANGED <<jobs, nextId, req, fs, probe, now, sweeper, detached, clients, jobs_lock>>

FetchVideo(task_id, env) == FetchInto(task_id, env, "a_video", "a_audio")

FetchAudio(task_id, env) == FetchInto(task_id, env, "a_audio", "a_unique")

\* adaptive: output_path = _resolve_unique_path(save_dir, safe_stem, ".mp4")
AdaptiveUnique(task_id) ==
    /\ At(task_id, "a_unique")
    /\ LET w == wk[task_id]
           path == _resolve_unique_path(fs, w.frame.safe_stem, DotMp4)
       IN  wk' = [wk EXCEPT ![task_id] =
                     Proceed(w, [w.frame EXCEPT !.output_path = path], "a_merge")]
    /\ UNCHANGED <<jobs, nextId, req, fs, tmp, probe, now, sweeper, detached, clients, jobs_lock>>

\* adaptive: an exists() call of _resolve_unique_path raises OSError inside the with
\* block; the block is left and the error is re-raised as ValueError
AdaptiveUniqueFails(task_id) ==
    /\ At(task_id, "a_unique")
    /\ wk' = [wk EXCEPT ![task_id] =
                 Step(@, Done([wk[task_id].frame EXCEPT !.did = @ \cup {"unique failed"}],
                              AdaptiveFault("oserror")))]
    /\ tmp' = Removed(tmp, task_id)
    /\ UNCHANGED <<jobs, nextId, req, fs, probe, now, sweeper, detached, clients, jobs_lock>>

\* adaptive: _merge_av_with_ffmpeg(...), the end of the with block and the return
Merge(task_id, env) ==
    /\ At(task_id, "a_merge")
    /\ \E answer \in env.merge, partial \in env.partial :
          LET w == wk[task_id]
              frame == [w.frame EXCEPT !.did = @ \cup {"muxer"}]
              path == frame.output_path
          IN  IF answer = "ok"
              THEN /\ fs' = fs \cup {path}
                   /\ wk' = [wk EXCEPT ![task_id] =
                                Step(w, Done(frame, Return(Merged(Descriptor(frame, path)))))]
              ELSE /\ fs' = IF partial /\ answer = "failed" THEN fs \cup {path} ELSE fs
                   /\ wk' = [wk EXCEPT ![task_id] =
                                Step(w, Done(frame, AdaptiveFault("other")))]
    /\ tmp' = Removed(tmp, task_id)
    /\ UNCHANGED <<jobs, nextId, req, probe, now, sweeper, detached, clients, jobs_lock>>

\* mp3: target_path = _resolve_unique_path(save_dir, safe_stem, ".mp3")
Mp3Unique(task_id) ==
    /\ At(task_id, "m_unique")
    /\ LET w == wk[task_id]
           path == _resolve_unique_path(fs, w.frame.safe_stem, DotMp3)
       IN  wk' = [wk EXCEPT ![task_id] =
                     Proceed(w, [w.frame EXCEPT !.output_path = path], "m_download")]
    /\ UNCHANGED <<jobs, nextId, req, fs, tmp, probe, now, sweeper, detached, clients, jobs_lock>>

\* mp3: stream.download(...), the move to target_path when the provider wrote
\* elsewhere, and the return of the descriptor
Mp3Download(task_id, env) ==
    /\ At(task_id, "m_download")
    /\ \E fault \in env.download, partial \in env.partial, move \in env.move :
          LET w == wk[task_id]
              path == w.frame.output_path
          IN  IF fault # "ok"
              THEN /\ fs' = IF partial THEN fs \cup {path} ELSE fs
                   /\ wk' = [wk EXCEPT ![task_id] = Step(w, Done(w.frame, Mp3Fault(fault)))]
              ELSE IF move = "oserror"
              THEN /\ fs' = fs
                   /\ wk' = [wk EXCEPT ![task_id] =
                                Step(w, Done(w.frame,
                                     Raise("ValueError", "Cannot move mp3 file to target location.")))]
              ELSE /\ fs' = fs \cup {path}
                   /\ wk' = [wk EXCEPT ![task_id] =
                                Step(w, Done(w.frame, Return(Descriptor(w.frame, path))))]
    /\ UNCHANGED <<jobs, nextId, req, tmp, probe, now, sweeper, detached, clients, jobs_lock>>

-----------------------------------------------------------------------------
(* Requests *)

Item(format, quality, name) ==
    [video_link |-> "https://youtu.be/x", format |-> format, quality |-> quality,
     folder |-> "downloads", name |-> name]

Unnamed(format, quality) ==
    [video_link |-> "https://youtu.be/x", format |-> format, quality |-> quality,
     folder |-> "downloads"]

Batches(items) ==
    UNION {{[videos |-> videos] : videos \in [1..n -> items]} : n \in 1..MaxBatch}

Q720 == <<"7", "2", "0">>

\* the requests of the lifecycle specification: one item, alone or twice in a batch
LeanItem == Item(Mp4, Q720, <<"a">>)

LeanPayloads == {LeanItem, [videos |-> <<LeanItem, LeanItem>>]}

\* the requests of the orchestrator specification
FullItems ==
    {Item(Mp4, Q720, <<"a">>),
     Item(<<" ", "M", "P", "4">>, <<"3", "6", "0", "P", " ">>, <<" ", "a", "/", "b">>),
     Item(Mp4, <<"1", "0", "8", "0", "p">>, <<" ">>),
     Unnamed(Mp4, <<"h", "d">>),
     Item(Mp3, <<"1", "2", "8">>, <<"a">>),
     Unnamed(Mp3, <<"3", "2", "0", "k", "b", "p", "s">>)}

\* the items of its batches: one that can complete or fail in every way, and an mp3
BatchItems == {Item(Mp4, Q720, <<"a">>), Item(Mp3, <<"1", "2", "8">>, <<"a">>)}

FullPayloads == FullItems \cup Batches(BatchItems)

-----------------------------------------------------------------------------
(* Specifications *)

\* the task lifecycle under concurrency: MaxTasks requests, their handlers and workers
Next ==
    \/ Accept(LeanPayloads, MaxTasks)
    \/ \E task_id \in TaskIds : StartWorker(task_id)
    \/ \E task_id \in TaskIds : StartWorkerFails(task_id)
    \/ \E task_id \in TaskIds : WorkerStart(task_id)
    \/ \E task_id \in TaskIds : OrchBegin(task_id, LeanEnv)
    \/ \E task_id \in TaskIds : ProgressiveUnique(task_id)
    \/ \E task_id \in TaskIds : ProgressiveDownload(task_id, LeanEnv)
    \/ \E task_id \in TaskIds : WorkerFinish(task_id)

Spec == Init /\ [][Next]_vars

\* one request, with every answer of the provider, the filesystem and the muxer
OrchNext ==
    \/ Accept(FullPayloads, 1)
    \/ StartWorker(1)
    \/ StartWorkerFails(1)
    \/ WorkerStart(1)
    \/ OrchBegin(1, FullEnv)
    \/ ProgressiveUnique(1)
    \/ ProgressiveDownload(1, FullEnv)
    \/ AdaptiveSelect(1, FullEnv)
    \/ MakeScratch(1, FullEnv)
    \/ FetchVideo(1, FullEnv)
    \/ FetchAudio(1, FullEnv)
    \/ AdaptiveUnique(1)
    \/ Merge(1, FullEnv)
    \/ Mp3Unique(1)
    \/ Mp3Download(1, FullEnv)
    \/ WorkerFinish(1)

OrchSpec == Init /\ [][OrchNext]_vars

-----------------------------------------------------------------------------
(* The pure functions on their own: Init draws the inputs, the actions apply them *)

Idle ==
    /\ jobs = <<>>
    /\ nextId = 0
    /\ req = <<>>
    /\ wk = <<>>
    /\ fs = {}
    /\ tmp = {}
    /\ now = 0
    /\ sweeper = NotStarted(TASK_RETENTION_MINUTES, TASK_CLEANUP_INTERVAL_SECONDS)
    /\ detached = <<>>
    /\ jobs_lock = {}
    /\ clients = <<>>

Pads == {<<>>, <<" ">>}

CoreChars == {"7", "0", "x", "P", " "}

Cores == UNION {[1..n -> CoreChars] : n \in 0..MaxCore}

Suffixes ==
    {<<>>, SuffixP, <<"P">>, SuffixKbps, <<"K", "B", "P", "S">>, <<"k", "b", "p">>}

\* raw quality strings: leading blank, core, suffix, trailing blank
RawQualities ==
    {left \o core \o suffix \o right :
        left \in Pads, core \in Cores, suffix \in Suffixes, right \in Pads}

NormInit ==
    /\ Idle
    /\ probe \in [op : {"normalize"}, quality : RawQualities, requested_format : ALLOWED_FORMATS]

\* normalized = _normalize_quality(quality, requested_format)
NormalizeOnce ==
    /\ probe.op = "normalize"
    /\ "once" \notin DOMAIN probe
    /\ probe' = SetKeys(probe,
                    [once |-> _normalize_quality(probe.quality, probe.requested_format)])
    /\ UNCHANGED <<jobs, nextId, req, wk, fs, tmp, now, sweeper, detached, clients, jobs_lock>>

\* _normalize_quality(normalized, requested_format)
NormalizeTwice ==
    /\ probe.op = "normalize"
    /\ "once" \in DOMAIN probe
    /\ "twice" \notin DOMAIN probe
    /\ probe' = SetKeys(probe,
                    [twice |-> _normalize_quality(probe.once, probe.requested_format)])
    /\ UNCHANGED <<jobs, nextId, req, wk, fs, tmp, now, sweeper, detached, clients, jobs_lock>>

NormNext == NormalizeOnce \/ NormalizeTwice

NormSpec == NormInit /\ [][NormNext]_vars

StreamLabels ==
    {Label(144), Label(360), Label(720), Label(1080), <<" ", "4", "8", "0", "P">>,
     NoLabel, Q720, <<"h", "d", "p">>}

LabelLists == UNION {[1..n -> StreamLabels] : n \in 0..MaxStreams}

\* normalized mp4 qualities, one of them no height
SelQualities ==
    {_normalize_quality(raw, Mp4) :
        raw \in {<<"1", "0", "0">>, Label(144), <<"5", "0", "0", "P">>, Q720,
                 Label(1080), <<"h", "d">>}}

SelInit ==
    /\ Idle
    /\ probe \in [op : {"select"}, resolver : {"progressive", "adaptive"},
                  labels : LabelLists, normalized_quality : SelQualities]

\* the provider's video, offering the probe's streams to the resolver asked
ProbeVideo ==
    [progressive |-> Enumerated(probe.labels), adaptive |-> Enumerated(probe.labels),
     audio |-> EnumFault("other")]

\* _select_progressive_mp4_stream(yt, normalized_quality)
SelectProgressive ==
    /\ probe.op = "select"
    /\ probe.resolver = "progressive"
    /\ "selected" \notin DOMAIN probe
    /\ probe' = SetKeys(probe,
          [selected |-> _select_progressive_mp4_stream(ProbeVideo, probe.normalized_quality)])
    /\ UNCHANGED <<jobs, nextId, req, wk, fs, tmp, now, sweeper, detached, clients, jobs_lock>>

\* _select_adaptive_mp4_stream(yt, normalized_quality)
SelectAdaptiveStream ==
    /\ probe.op = "select"
    /\ probe.resolver = "adaptive"
    /\ "selected" \notin DOMAIN probe
    /\ probe' = SetKeys(probe,
          [selected |-> _select_adaptive_mp4_stream(ProbeVideo, probe.normalized_quality)])
    /\ UNCHANGED <<jobs, nextId, req, wk, fs, tmp, now, sweeper, detached, clients, jobs_lock>>

SelNext == SelectProgressive \/ SelectAdaptiveStream

SelSpec == SelInit /\ [][SelNext]_vars

\* the orchestrator specification under fair scheduling: the request handler and the
\* worker thread are each scheduled again and again, and every call they make returns
HandlerStep(task_id) == StartWorker(task_id) \/ StartWorkerFails(task_id)

WorkerStep(task_id) ==
    \/ WorkerStart(task_id)
    \/ OrchBegin(task_id, FullEnv)
    \/ ProgressiveUnique(task_id)
    \/ ProgressiveDownload(task_id, FullEnv)
    \/ AdaptiveSelect(task_id, FullEnv)
    \/ MakeScratch(task_id, FullEnv)
    \/ FetchVideo(task_id, FullEnv)
    \/ FetchAudio(task_id, FullEnv)
    \/ AdaptiveUnique(task_id)
    \/ Merge(task_id, FullEnv)
    \/ Mp3Unique(task_id)
    \/ Mp3Download(task_id, FullEnv)
    \/ WorkerFinish(task_id)

\* its requests: every single item, and the batches of two items
FairPayloads == FullItems \cup {[videos |-> videos] : videos \in [{1, 2} -> BatchItems]}

FairNext ==
    \/ Accept(FairPayloads, 1)
    \/ HandlerStep(1)
    \/ WorkerStep(1)

FairOrchSpec ==
    /\ Init
    /\ [][FairNext]_vars
    /\ WF_vars(HandlerStep(1))
    /\ WF_vars(WorkerStep(1))

-----------------------------------------------------------------------------
(* An mp3 request against the audio streams the provider offers *)

\* the bitrates of the streams offered, and the qualities asked for
Rates == {64, 128, 160}

Offers == UNION {[1..n -> {Abr(rate) : rate \in Rates}] : n \in 0..MaxOffered}

Bitrates == {<<"1", "2", "8">>, Abr(160), <<"9", "6">>, <<" ", "6", "4", "K", "B", "P", "S">>}

AudioInit ==
    /\ Idle
    /\ probe \in [op : {"audio"}, offered : Offers, quality : Bitrates]

\* the provider's video, offering the probe's audio streams
OfferedWorld ==
    [Fine(LeanEnv) EXCEPT
        !.yt.audio = AudioEnumerated([i \in 1..Len(probe.offered) |->
                                        <<probe.offered[i], "audio/webm">>])]

AudioNext ==
    \/ Accept({Item(Mp3, probe.quality, <<"a">>)}, 1)
    \/ StartWorker(1)
    \/ StartWorkerFails(1)
    \/ WorkerStart(1)
    \/ Begin(1, {OfferedWorld})
    \/ Mp3Unique(1)
    \/ Mp3Download(1, LeanEnv)
    \/ WorkerFinish(1)

AudioSpec == AudioInit /\ [][AudioNext]_vars

-----------------------------------------------------------------------------
(* An mp4 request against the video streams the provider offers *)

\* the heights of the streams offered, and the qualities asked for
OfferedHeights == {360, 720, 1080, 1440}

VideoOffers == UNION {[1..n -> {Label(h) : h \in OfferedHeights}] : n \in 0..MaxOffered}

AskedHeights == {<<"3", "6", "0">>, <<"7", "2", "0", "p">>, <<"1", "0", "8", "0", "P">>}

VideoInit ==
    /\ Idle
    /\ probe \in [op : {"video"}, progressive : VideoOffers, adaptive : VideoOffers,
                   quality : AskedHeights]

\* the provider's video, offering the probe's progressive and video-only streams
VideoWorld ==
    [Fine(LeanEnv) EXCEPT
        !.yt.progressive = Enumerated(probe.progressive),
        !.yt.adaptive = Enumerated(probe.adaptive)]

VideoNext ==
    \/ Accept({Item(Mp4, probe.quality, <<"a">>)}, 1)
    \/ StartWorker(1)
    \/ StartWorkerFails(1)
    \/ WorkerStart(1)
    \/ Begin(1, {VideoWorld})
    \/ ProgressiveUnique(1)
    \/ ProgressiveDownload(1, CalmEnv)
    \/ Adaptive(1, {VideoWorld})
    \/ MakeScratch(1, CalmEnv)
    \/ FetchVideo(1, CalmEnv)
    \/ FetchAudio(1, CalmEnv)
    \/ AdaptiveUnique(1)
    \/ Merge(1, CalmEnv)
    \/ WorkerFinish(1)

VideoSpec == VideoInit /\ [][VideoNext]_vars

-----------------------------------------------------------------------------
(* The scratch directory of the merge pipeline: requests for 1080p whose workers run *)
(* side by side; the directory cannot always be made, each download, the path       *)
(* computation and the muxer can fail                                               *)

Q1080 == <<"1", "0", "8", "0", "p">>

ScratchItem == Item(Mp4, Q1080, <<"a">>)

ScratchPayloads == {ScratchItem}

ScratchEnv ==
    [LeanEnv EXCEPT !.tmpdir = {"ok", "oserror"},
                    !.download = {"ok", "http"},
                    !.merge = {"ok", "failed"}]

ScratchNext ==
    \/ Accept(ScratchPayloads, MaxTasks)
    \/ \E task_id \in TaskIds : StartWorker(task_id)
    \/ \E task_id \in TaskIds : WorkerStart(task_id)
    \/ \E task_id \in TaskIds : Begin(task_id, {Fine(ScratchEnv)})
    \/ \E task_id \in TaskIds : Adaptive(task_id, {Fine(ScratchEnv)})
    \/ \E task_id \in TaskIds : MakeScratch(task_id, ScratchEnv)
    \/ \E task_id \in TaskIds : FetchVideo(task_id, ScratchEnv)
    \/ \E task_id \in TaskIds : FetchAudio(task_id, ScratchEnv)
    \/ \E task_id \in TaskIds : AdaptiveUnique(task_id)
    \/ \E task_id \in TaskIds : AdaptiveUniqueFails(task_id)
    \/ \E task_id \in TaskIds : Merge(task_id, ScratchEnv)
    \/ \E task_id \in TaskIds : WorkerFinish(task_id)

ScratchInit == Idle /\ probe = IdleProbe

ScratchSpec == ScratchInit /\ [][ScratchNext]_vars

-----------------------------------------------------------------------------
(* _validate_payload, and download() for a request it turns down.  A request body *)
(* is a JSON value: an object with its fields, an array with its items, or some   *)
(* other value.  The fields of an item are kept as the worker reads them, format  *)
(* and quality as characters, links and folders whole.                            *)

Json(type, value) == [json |-> type, value |-> value]

Object(fields) == Json("object", fields)

Array(items) == Json("array", [items |-> items])

Scalar == Json("string", [text |-> "x"])

REQUIRED_FIELDS == {"video_link", "format", "quality", "folder"}

\* urlparse(link) for the links the requests are drawn from; it raises ValueError
\* on a netloc with an unbalanced bracket
UrlParse(link) ==
    CASE link = "https://youtu.be/x" ->
            [raises |-> FALSE, hostname |-> <<"y", "o", "u", "t", "u", ".", "b", "e">>,
             path |-> <<"/", "x">>, params |-> {}]
      [] link = "https://example.com/x" ->
            [raises |-> FALSE,
             hostname |-> <<"e", "x", "a", "m", "p", "l", "e", ".", "c", "o", "m">>,
             path |-> <<"/", "x">>, params |-> {}]
      [] link = "https://youtube.com/playlist?list=p" ->
            [raises |-> FALSE,
             hostname |-> <<"y", "o", "u", "t", "u", "b", "e", ".", "c", "o", "m">>,
             path |-> <<"/", "p", "l", "a", "y", "l", "i", "s", "t">>, params |-> {"list"}]
      [] link = "http://[" ->
            [raises |-> TRUE, hostname |-> <<>>, path |-> <<>>, params |-> {}]

\* the hosts of valid_hosts with "www." removed
ValidHostSuffixes ==
    {<<"y", "o", "u", "t", "u", "b", "e", ".", "c", "o", "m">>,
     <<"y", "o", "u", "t", "u", ".", "b", "e">>,
     <<"m", ".", "y", "o", "u", "t", "u", "b", "e", ".", "c", "o", "m">>}

\* _is_valid_youtube_url, on the parsed link
_is_valid_youtube_url(parsed) ==
    /\ \E host \in ValidHostSuffixes : EndsWith(parsed.hostname, host)
    /\ \/ \E i \in 1..Len(parsed.path) : parsed.path[i] # "/"
       \/ parsed.params # {}

\* _is_playlist_url, on the parsed link
_is_playlist_url(parsed) ==
    \/ "list" \in parsed.params
    \/ /\ Len(parsed.path) >= 9
       /\ Lower(SubSeq(parsed.path, 1, 9)) = <<"/", "p", "l", "a", "y", "l", "i", "s", "t">>

\* field not in payload or str(payload[field]).strip() == "": str() is applied to
\* whatever the value is, so that a number or null is a field like any other
MissingFields(fields) ==
    {field \in REQUIRED_FIELDS :
        \/ field \notin DOMAIN fields
        \/ IF field \in {"format", "quality"}
           THEN Strip(fields[field]) = <<>>
           ELSE fields[field] = ""}

\* the checks of one item, in the order of the code: "" for an item that passes,
\* otherwise its error; "raise" where urlparse raises
ItemError(item) ==
    IF item.json # "object" THEN "Each video item must be a JSON object."
    ELSE IF MissingFields(item.value) # {} THEN "Missing required fields."
    ELSE IF Lower(Strip(item.value.format)) \notin ALLOWED_FORMATS
    THEN "format must be either 'mp4' or 'mp3'"
    ELSE IF UrlParse(item.value.video_link).raises THEN "raise"
    ELSE IF ~_is_valid_youtube_url(UrlParse(item.value.video_link))
    THEN "video_link must be a valid YouTube URL (youtube.com or youtu.be)."
    ELSE IF _is_playlist_url(UrlParse(item.value.video_link))
    THEN "Playlist download is not supported. Please provide a single video URL."
    ELSE ""

\* what _validate_payload returns or raises
Valid(validated_payload) ==
    [raised |-> FALSE, status_code |-> 200, payload |-> validated_payload]

Invalid(error_body) == [raised |-> FALSE, status_code |-> 400, error_body |-> error_body]

Unhandled == [raised |-> TRUE, status_code |-> 500, error_body |-> [error |-> "ValueError"]]

\* _validate_payload(payload)
_validate_payload(payload) ==
    IF payload.json # "object" THEN Invalid([error |-> "Request body must be valid JSON."])
    ELSE IF "videos" \in DOMAIN payload.value
    THEN LET videos_payload == payload.value.videos
         IN  IF videos_payload.json # "array" \/ videos_payload.value.items = <<>>
             THEN Invalid([error |-> "videos must be a non-empty array."])
             ELSE LET items == videos_payload.value.items
                      failing == {i \in 1..Len(items) : ItemError(items[i]) # ""}
                  IN  IF \E i \in failing : ItemError(items[i]) = "raise" THEN Unhandled
                      ELSE IF failing # {}
                      THEN Invalid([error |-> "Invalid videos payload.",
                                    video_errors |-> [i \in failing |-> ItemError(items[i])]])
                      ELSE Valid([videos |-> [i \in 1..Len(items) |-> items[i].value]])
    ELSE IF ItemError(payload) = "raise" THEN Unhandled
    ELSE IF ItemError(payload) # "" THEN Invalid([error |-> ItemError(payload)])
    ELSE Valid(payload.value)

\* the payloads download() creates tasks for, out of the bodies it may receive
Accepted(bodies) ==
    {_validate_payload(body).payload :
        body \in {b \in bodies : _validate_payload(b).status_code = 200}}

\* download() for a body that _validate_payload turns down or raises on: the cleanup
\* thread is ensured, the response is sent, nothing else is touched
Reject(c, bodies) ==
    /\ c \notin DOMAIN clients
    /\ \E body \in bodies :
          LET outcome == _validate_payload(body)
          IN  /\ outcome.status_code # 200
              /\ clients' = Put(clients, c, [kind |-> "post", pc |-> "responded",
                                              code |-> outcome.status_code,
                                              body |-> outcome.error_body,
                                              payload |-> body])
    /\ sweeper' = EnsureStarted(sweeper, now)
    /\ UNCHANGED <<jobs, nextId, req, wk, fs, tmp, probe, now, detached, jobs_lock>>

\* the items of the bodies: one that passes, and one for each way of failing
BlankQuality == [LeanItem EXCEPT !.quality = <<" ">>]

NoFolder == [k \in {"video_link", "format", "quality"} |-> LeanItem[k]]

Avi == [LeanItem EXCEPT !.format = <<"a", "v", "i">>]

Elsewhere == [LeanItem EXCEPT !.video_link = "https://example.com/x"]

Playlist == [LeanItem EXCEPT !.video_link = "https://youtube.com/playlist?list=p"]

Malformed == [LeanItem EXCEPT !.video_link = "http://["]

\* quality and format given as JSON numbers: {"quality": 720}, {"format": 4}
QualityNumber == SetKeys(LeanItem, [not_strings |-> {"quality"}])

FormatNumber == SetKeys([LeanItem EXCEPT !.format = <<"4">>], [not_strings |-> {"format"}])

BadItems ==
    {Scalar, Object(BlankQuality), Object(NoFolder), Object(Avi), Object(Elsewhere),
     Object(Playlist), Object(Malformed)}

Bodies ==
    {Scalar, Object(LeanItem), Object([videos |-> Scalar]),
     Object([videos |-> Array(<<>>)]), Object([videos |-> Array(<<Object(LeanItem)>>)])}
    \cup (BadItems \ {Scalar})
    \cup {Object([videos |-> Array(<<Object(LeanItem), bad>>)]) : bad \in BadItems}
    \cup {Object([videos |-> Array(<<bad, Object(LeanItem)>>)]) : bad \in BadItems}
    \cup {Object([videos |-> Array(<<Object(Avi), Object(Malformed)>>)])}
    \cup {Object(QualityNumber), Object(FormatNumber),
          Object([videos |-> Array(<<Object(LeanItem), Object(QualityNumber)>>)])}

\* the requests to download(), good and bad, and the worker of the one task
ValidNext ==
    \/ Accept(Accepted(Bodies), 1)
    \/ \E c \in Clients : Reject(c, Bodies)
    \/ StartWorker(1)
    \/ StartWorkerFails(1)
    \/ WorkerStart(1)
    \/ OrchBegin(1, LeanEnv)
    \/ ProgressiveUnique(1)
    \/ ProgressiveDownload(1, LeanEnv)
    \/ WorkerFinish(1)

ValidSpec == Init /\ [][ValidNext]_vars

-----------------------------------------------------------------------------
(* _cleanup_finished_jobs_forever and the clock it reads *)

\* time.time() advances
Tick ==
    /\ now < MaxTicks * TickSeconds
    /\ now' = now + TickSeconds
    /\ UNCHANGED <<jobs, nextId, req, wk, fs, tmp, probe, sweeper, detached, clients, jobs_lock>>

\* a cycle that removes every task not written for retention_seconds, whatever its status
RemovableByAge(registry, time, retention_seconds) ==
    {t \in DOMAIN registry : time - registry[t].updated_at >= retention_seconds}

\* a cycle that also removes the tasks in progress that were not written for
\* retention_seconds
RemovableOnceStarted(registry, time, retention_seconds) ==
    {t \in DOMAIN registry :
        /\ registry[t].status \in Terminal \cup {"in_progress"}
        /\ time - (IF "finished_at_unix" \in DOMAIN registry[t]
                   THEN registry[t].finished_at_unix ELSE registry[t].updated_at)
              >= retention_seconds}

\* the tasks one cycle removes: completed or failed, with a finished_at_unix that
\* lies retention_seconds or more before the time the cycle read
Removable(registry, time, retention_seconds) ==
    {t \in DOMAIN registry :
        /\ registry[t].status \in Terminal
        /\ "finished_at_unix" \in DOMAIN registry[t]
        /\ time - registry[t].finished_at_unix >= retention_seconds}

\* time.sleep(interval_seconds) returns, not before interval_seconds have passed,
\* and the cycle reads now = time.time()
SweepWake ==
    /\ sweeper.started
    /\ sweeper.pc = "sleep"
    /\ now - sweeper.slept_at >= sweeper.interval_seconds
    /\ sweeper' = [sweeper EXCEPT !.pc = "scan", !.now = now]
    /\ UNCHANGED <<jobs, nextId, req, wk, fs, tmp, probe, now, detached, clients, jobs_lock>>

\* the cycle under jobs_lock: collect the removable task ids, pop them, sleep again
\* from the present time; the time the cycle read is not used again.
\* A handler that looked a popped task up before still holds its record (detached).
SweepCycle ==
    /\ sweeper.pc = "scan"
    /\ ~Locked
    /\ LET removable_task_ids == Removable(jobs, sweeper.now, sweeper.retention_seconds)
       IN  /\ jobs' = [t \in DOMAIN jobs \ removable_task_ids |-> jobs[t]]
           /\ detached' = [t \in DOMAIN detached \cup removable_task_ids |->
                              IF t \in removable_task_ids THEN jobs[t] ELSE detached[t]]
    /\ sweeper' = [sweeper EXCEPT !.pc = "sleep", !.now = 0, !.slept_at = now]
    /\ clients' = Witnessed(clients, jobs')
    /\ jobs_lock' = WithBlock(jobs_lock, CleanupThread)
    /\ UNCHANGED <<nextId, req, wk, fs, tmp, probe, now>>

\* the values of TASK_RETENTION_MINUTES the environment is drawn from
RetentionSettings == {0, 2}

SweepInit ==
    /\ jobs = <<>>
    /\ nextId = 0
    /\ req = <<>>
    /\ wk = <<>>
    /\ fs = {}
    /\ tmp = {}
    /\ probe = IdleProbe
    /\ now = 0
    /\ detached = <<>>
    /\ jobs_lock = {}
    /\ clients = <<>>
    /\ sweeper \in {NotStarted(retention_minutes, TASK_CLEANUP_INTERVAL_SECONDS) :
                       retention_minutes \in RetentionSettings}

\* requests, their workers, the clock and the cleanup thread
SweepNext ==
    \/ Accept({LeanItem}, MaxTasks)
    \/ \E task_id \in TaskIds : StartWorker(task_id)
    \/ \E task_id \in TaskIds : StartWorkerFails(task_id)
    \/ \E task_id \in TaskIds : WorkerStart(task_id)
    \/ \E task_id \in TaskIds : OrchBegin(task_id, CalmEnv)
    \/ \E task_id \in TaskIds : ProgressiveUnique(task_id)
    \/ \E task_id \in TaskIds : ProgressiveDownload(task_id, CalmEnv)
    \/ \E task_id \in TaskIds : WorkerFinish(task_id)
    \/ Tick
    \/ SweepWake
    \/ SweepCycle

SweepSpec == SweepInit /\ [][SweepNext]_vars

\* the values of TASK_RETENTION_MINUTES and TASK_CLEANUP_INTERVAL_SECONDS the
\* environment is drawn from: negative, zero, and above the floors
CleanupSettings ==
    {NotStarted(retention_minutes, cleanup_interval) :
        retention_minutes \in {-1, 0, 2}, cleanup_interval \in {-30, 0, 120}}

SettingsInit ==
    /\ jobs = <<>>
    /\ nextId = 0
    /\ req = <<>>
    /\ wk = <<>>
    /\ fs = {}
    /\ tmp = {}
    /\ probe = IdleProbe
    /\ now = 0
    /\ detached = <<>>
    /\ jobs_lock = {}
    /\ clients = <<>>
    /\ sweeper \in CleanupSettings

\* one request, its worker, the clock and the cleanup thread under each setting
SettingsNext ==
    \/ Accept({LeanItem}, 1)
    \/ StartWorker(1)
    \/ StartWorkerFails(1)
    \/ WorkerStart(1)
    \/ OrchBegin(1, CalmEnv)
    \/ ProgressiveUnique(1)
    \/ ProgressiveDownload(1, CalmEnv)
    \/ WorkerFinish(1)
    \/ Tick
    \/ SweepWake
    \/ SweepCycle

SettingsSpec == SettingsInit /\ [][SettingsNext]_vars

-----------------------------------------------------------------------------
(* The cleanup thread for ever: a cycle that raises, and a clock that never stops *)

\* a loop with no except clause: the exception ends the thread
Uncaught(cleanup, time) == [cleanup EXCEPT !.pc = "ended", !.now = 0]

\* except Exception as exc: print(...), and the loop goes round: the thread sleeps
\* again from the present time
Swallowed(cleanup, time) ==
    [cleanup EXCEPT !.pc = "sleep", !.now = 0, !.slept_at = time, !.printed = TRUE]

\* a statement of the cycle raises an Exception before any task is popped
SweepCycleRaises ==
    /\ sweeper.pc = "scan"
    /\ sweeper' = Swallowed(sweeper, now)
    /\ UNCHANGED <<jobs, nextId, req, wk, fs, tmp, probe, now, detached, clients, jobs_lock>>

\* Time as it is compared: every test of the program is now - t >= seconds for a
\* stored time t and at most MaxTicks * TickSeconds seconds, so a stored time that
\* far back or further is as good as any other such time.
Earlier(time) == IF time > TickSeconds THEN time - TickSeconds ELSE 0

EarlierTask(record) ==
    [k \in DOMAIN record |->
        IF k \in {"updated_at", "finished_at_unix"} THEN Earlier(record[k]) ELSE record[k]]

\* time.time() advances without end: up to the last value of the clock as Tick, and
\* from then on with every stored time moved one tick back instead
Later ==
    IF now < MaxTicks * TickSeconds THEN Tick
    ELSE /\ jobs' = [t \in DOMAIN jobs |-> EarlierTask(jobs[t])]
         /\ detached' = [t \in DOMAIN detached |-> EarlierTask(detached[t])]
         /\ sweeper' = [sweeper EXCEPT !.slept_at = Earlier(@), !.now = Earlier(@)]
         /\ UNCHANGED <<nextId, req, wk, fs, tmp, probe, now, clients, jobs_lock>>

\* one request and its worker, the clock, and the cleanup thread with its faults
ForeverNext ==
    \/ Accept({LeanItem}, 1)
    \/ StartWorker(1)
    \/ StartWorkerFails(1)
    \/ WorkerStart(1)
    \/ OrchBegin(1, CalmEnv)
    \/ ProgressiveUnique(1)
    \/ ProgressiveDownload(1, CalmEnv)
    \/ WorkerFinish(1)
    \/ Later
    \/ SweepWake
    \/ SweepCycle
    \/ SweepCycleRaises

\* Fair scheduling: time passes, a sleep that is over returns, and a thread that
\* can take a step takes one.  Nothing is required of the requests.
ForeverSpec ==
    /\ SettingsInit
    /\ [][ForeverNext]_vars
    /\ WF_vars(Later)
    /\ WF_vars(SweepWake)
    /\ WF_vars(SweepCycle \/ SweepCycleRaises)

-----------------------------------------------------------------------------
(* _ensure_cleanup_thread_started() statement by statement, for callers that run *)
(* at the same time: the request handlers, each of which calls it first, and the *)
(* call at startup, taken as one more caller (caller 0)                          *)

Callers == 0..MaxCallers

\* a lock that any number of threads may hold
AlwaysFree(lock) == TRUE

\* Lock.acquire() returns when no thread holds the lock
Free(lock) == lock = {}

AtGuard(c, pc) == c \in DOMAIN clients /\ clients[c].kind = "guard" /\ clients[c].pc = pc

\* a caller enters _ensure_cleanup_thread_started(); a handler does so once per
\* request, and a caller that has left may come back with its next request
GuardCall(c) ==
    /\ c \notin DOMAIN clients \/ (c # 0 /\ AtGuard(c, "returned")) \/ (c # 0 /\ AtGuard(c, "raised"))
    /\ clients' = Put(clients, c, [kind |-> "guard", pc |-> "called"])
    /\ UNCHANGED <<jobs, nextId, req, wk, fs, tmp, probe, now, sweeper, detached, jobs_lock>>

\* with cleanup_lock:
GuardAcquire(c) ==
    /\ AtGuard(c, "called")
    /\ Free(sweeper.cleanup_lock)
    /\ sweeper' = [sweeper EXCEPT !.cleanup_lock = @ \cup {c}]
    /\ clients' = [clients EXCEPT ![c].pc = "locked"]
    /\ UNCHANGED <<jobs, nextId, req, wk, fs, tmp, probe, now, detached, jobs_lock>>

\* if cleanup_thread_started: return, which releases the lock
GuardCheck(c) ==
    /\ AtGuard(c, "locked")
    /\ IF sweeper.started
       THEN /\ sweeper' = [sweeper EXCEPT !.cleanup_lock = @ \ {c}]
            /\ clients' = [clients EXCEPT ![c].pc = "returned"]
       ELSE /\ clients' = [clients EXCEPT ![c].pc = "starting"]
            /\ UNCHANGED sweeper
    /\ UNCHANGED <<jobs, nextId, req, wk, fs, tmp, probe, now, detached, jobs_lock>>

\* cleanup_thread.start(): one more thread runs _cleanup_finished_jobs_forever, which
\* computes its two settings and goes to sleep
GuardStart(c) ==
    /\ AtGuard(c, "starting")
    /\ sweeper' = [EnsureStarted([sweeper EXCEPT !.started = FALSE], now) EXCEPT
                        !.started = sweeper.started,
                        !.launched = sweeper.launched + 1]
    /\ clients' = [clients EXCEPT ![c].pc = "started"]
    /\ UNCHANGED <<jobs, nextId, req, wk, fs, tmp, probe, now, detached, jobs_lock>>

\* a handler that leaves the guard's with block by an exception and keeps the lock
GuardStartFailsHolding(c) ==
    /\ AtGuard(c, "starting")
    /\ clients' = [clients EXCEPT ![c].pc = "raised"]
    /\ UNCHANGED <<jobs, nextId, req, wk, fs, tmp, probe, now, sweeper, detached, jobs_lock>>

\* cleanup_thread.start() raises RuntimeError, no thread runs; the exception leaves
\* the with block, which releases the lock, and the flag stays unset
GuardStartFails(c) ==
    /\ AtGuard(c, "starting")
    /\ sweeper' = [sweeper EXCEPT !.cleanup_lock = @ \ {c}]
    /\ clients' = [clients EXCEPT ![c].pc = "raised"]
    /\ UNCHANGED <<jobs, nextId, req, wk, fs, tmp, probe, now, detached, jobs_lock>>

\* cleanup_thread_started = True, and the end of the with block
GuardSet(c) ==
    /\ AtGuard(c, "started")
    /\ sweeper' = [sweeper EXCEPT !.started = TRUE, !.cleanup_lock = @ \ {c}]
    /\ clients' = [clients EXCEPT ![c].pc = "returned"]
    /\ UNCHANGED <<jobs, nextId, req, wk, fs, tmp, probe, now, detached, jobs_lock>>

\* the callers of the guard, the clock and the cleanup thread
GuardNext ==
    \/ \E c \in Callers : GuardCall(c)
    \/ \E c \in Callers : GuardAcquire(c)
    \/ \E c \in Callers : GuardCheck(c)
    \/ \E c \in Callers : GuardStart(c)
    \/ \E c \in Callers : GuardStartFails(c)
    \/ \E c \in Callers : GuardSet(c)
    \/ Tick
    \/ SweepWake
    \/ SweepCycle

GuardSpec == SettingsInit /\ [][GuardNext]_vars

-----------------------------------------------------------------------------
(* download_status(): GET /api/download/<task_id>, and the worker's terminal write *)
(* one assignment at a time, as a handler that reads outside jobs_lock sees it     *)

\* the terminal write takes jobs_lock and assigns jobs[task_id]["status"]
WorkerWriteStatus(task_id) ==
    /\ task_id \in DOMAIN wk
    /\ wk[task_id].pc = "finish"
    /\ ~Locked
    /\ jobs' = [jobs EXCEPT ![task_id] =
                    SetKeys(@, [status |-> TerminalWrite(wk[task_id]).status])]
    /\ wk' = [wk EXCEPT ![task_id].pc = "write"]
    /\ clients' = Witnessed(clients, jobs')
    /\ jobs_lock' = Acquired(jobs_lock, Worker(task_id))
    /\ UNCHANGED <<nextId, req, fs, tmp, probe, now, sweeper, detached>>

\* the assignments of result or error, updated_at and finished_at_unix, and the release
WorkerWriteRest(task_id) ==
    /\ task_id \in DOMAIN wk
    /\ wk[task_id].pc = "write"
    /\ jobs' = [jobs EXCEPT ![task_id] =
                    Finished(Updated(SetKeys(@, TerminalWrite(wk[task_id])), now), now)]
    /\ wk' = [wk EXCEPT ![task_id].pc = "done"]
    /\ clients' = Witnessed(clients, jobs')
    /\ jobs_lock' = Released(jobs_lock, Worker(task_id))
    /\ UNCHANGED <<nextId, req, fs, tmp, probe, now, sweeper, detached>>

\* the task ids a client can ask for: those a response of download() carried, and
\* one that no task ever had
NeverCreated == 0

Known == {NeverCreated} \cup {t \in DOMAIN req : req[t].pc \in {"202", "500"}}

\* a lookup that also finds what the cleanup removed
FoundOrDetached(registry, task_id) == task_id \in DOMAIN registry \cup DOMAIN detached

\* jobs.get(task_id) is not None
Found(registry, task_id) == task_id \in DOMAIN registry

\* the dict the handler's local `task` refers to: the record itself, not a copy, still
\* referred to after the cleanup popped it
Deref(task_id) == IF task_id \in DOMAIN jobs THEN jobs[task_id] ELSE detached[task_id]

AtGet(c, pc) == c \in DOMAIN clients /\ clients[c].kind = "get" /\ clients[c].pc = pc

Responded(request, code) == [request EXCEPT !.pc = "responded", !.code = code]

\* the request arrives: _ensure_cleanup_thread_started()
GetBegin(c) ==
    /\ c \notin DOMAIN clients
    /\ \E task_id \in Known :
          clients' = Put(clients, c, [kind |-> "get", task_id |-> task_id, pc |-> "lookup",
                                      code |-> 0, body |-> <<>>])
    /\ sweeper' = EnsureStarted(sweeper, now)
    /\ UNCHANGED <<jobs, nextId, req, wk, fs, tmp, probe, now, detached, jobs_lock>>

\* with jobs_lock: task = jobs.get(task_id); 404 if task is None
GetLookup(c) ==
    /\ AtGet(c, "lookup")
    /\ ~Locked
    /\ LET request == clients[c]
       IN  clients' = [clients EXCEPT ![c] =
                          IF Found(jobs, request.task_id)
                          THEN [request EXCEPT !.pc = "status"]
                          ELSE Responded([request EXCEPT
                                             !.body = [error |-> "Task not found."]], 404)]
    /\ jobs_lock' = WithBlock(jobs_lock, Client(c))
    /\ UNCHANGED <<jobs, nextId, req, wk, fs, tmp, probe, now, sweeper, detached>>

\* response_body = {"task_id": task["task_id"], "status": task["status"]}
GetStatus(c) ==
    /\ AtGet(c, "status")
    /\ LET task == Deref(clients[c].task_id)
       IN  clients' = [clients EXCEPT ![c].pc = "if_completed",
                                      ![c].body = [task_id |-> task.task_id,
                                                   status |-> task.status]]
    /\ UNCHANGED <<jobs, nextId, req, wk, fs, tmp, probe, now, sweeper, detached, jobs_lock>>

\* if task["status"] == "completed":
GetIfCompleted(c) ==
    /\ AtGet(c, "if_completed")
    /\ clients' = [clients EXCEPT ![c].pc =
                       IF Deref(clients[c].task_id).status = "completed"
                       THEN "result" ELSE "if_failed"]
    /\ UNCHANGED <<jobs, nextId, req, wk, fs, tmp, probe, now, sweeper, detached, jobs_lock>>

\* response_body["result"] = task.get("result", {})
GetResult(c) ==
    /\ AtGet(c, "result")
    /\ LET task == Deref(clients[c].task_id)
       IN  clients' = [clients EXCEPT ![c].pc = "if_failed",
                                      ![c].body = SetKeys(@, [result |->
                                                     IF "result" \in DOMAIN task
                                                     THEN task.result ELSE <<>>])]
    /\ UNCHANGED <<jobs, nextId, req, wk, fs, tmp, probe, now, sweeper, detached, jobs_lock>>

\* if task["status"] == "failed": ... else the response, 200
GetIfFailed(c) ==
    /\ AtGet(c, "if_failed")
    /\ LET request == clients[c]
       IN  clients' = [clients EXCEPT ![c] =
                          IF Deref(request.task_id).status = "failed"
                          THEN [request EXCEPT !.pc = "error"]
                          ELSE Responded(request, 200)]
    /\ UNCHANGED <<jobs, nextId, req, wk, fs, tmp, probe, now, sweeper, detached, jobs_lock>>

\* response_body["error"] = task.get("error", "Unknown error"), and the response, 200
GetError(c) ==
    /\ AtGet(c, "error")
    /\ LET task == Deref(clients[c].task_id)
           request == clients[c]
       IN  clients' = [clients EXCEPT ![c] =
                          Responded([request EXCEPT !.body = SetKeys(@, [error |->
                                                IF "error" \in DOMAIN task
                                                THEN task.error ELSE "Unknown error"])],
                                    200)]
    /\ UNCHANGED <<jobs, nextId, req, wk, fs, tmp, probe, now, sweeper, detached, jobs_lock>>

\* one task, its worker, the clock, the cleanup thread and the GET requests
StatusNext ==
    \/ Accept({LeanItem}, 1)
    \/ StartWorker(1)
    \/ StartWorkerFails(1)
    \/ WorkerStart(1)
    \/ OrchBegin(1, LeanEnv)
    \/ ProgressiveUnique(1)
    \/ ProgressiveDownload(1, LeanEnv)
    \/ WorkerWriteStatus(1)
    \/ WorkerWriteRest(1)
    \/ Tick
    \/ SweepWake
    \/ SweepCycle
    \/ \E c \in Clients : GetBegin(c)
    \/ \E c \in Clients : GetLookup(c)
    \/ \E c \in Clients : GetStatus(c)
    \/ \E c \in Clients : GetIfCompleted(c)
    \/ \E c \in Clients : GetResult(c)
    \/ \E c \in Clients : GetIfFailed(c)
    \/ \E c \in Clients : GetError(c)

StatusInit == Idle /\ probe = IdleProbe

StatusSpec == StatusInit /\ [][StatusNext]_vars

-----------------------------------------------------------------------------
(* The two locks together.  A request handler leaves the guard, its cleanup_lock   *)
(* given back, before it comes to a with jobs_lock block of download(),            *)
(* download_status() or health(); a request turned down by validation comes to     *)
(* none.  Here the handler's block is a wait, an acquisition and a release, and so *)
(* are the guard's; the blocks of the worker and of the cleanup thread are as      *)
(* above.                                                                          *)

\* the handler, out of the guard, reaches with jobs_lock: and waits for the lock
RegistryWait(c) ==
    /\ c # 0
    /\ AtGuard(c, "returned")
    /\ clients' = [clients EXCEPT ![c].pc = "waiting"]
    /\ UNCHANGED <<jobs, nextId, req, wk, fs, tmp, probe, now, sweeper, detached, jobs_lock>>

\* Lock.acquire() returns: the handler is inside the block
RegistryAcquire(c) ==
    /\ AtGuard(c, "waiting")
    /\ Free(jobs_lock)
    /\ jobs_lock' = Acquired(jobs_lock, Client(c))
    /\ clients' = [clients EXCEPT ![c].pc = "reading"]
    /\ UNCHANGED <<jobs, nextId, req, wk, fs, tmp, probe, now, sweeper, detached>>

\* the end of the block, reached normally or by an exception
RegistryRelease(c) ==
    /\ AtGuard(c, "reading")
    /\ jobs_lock' = Released(jobs_lock, Client(c))
    /\ clients' = [clients EXCEPT ![c].pc = "returned"]
    /\ UNCHANGED <<jobs, nextId, req, wk, fs, tmp, probe, now, sweeper, detached>>

\* download() for a valid request, while no other caller is inside the guard
Post ==
    /\ Free(sweeper.cleanup_lock)
    /\ Accept({LeanItem}, 1)

\* time.sleep(interval_seconds) of the cleanup thread: the time of the sleep passes
Asleep ==
    /\ sweeper.started
    /\ sweeper.pc = "sleep"
    /\ now - sweeper.slept_at < sweeper.interval_seconds
    /\ Later

\* two request handlers
Handlers == {1, 2}

\* the answers when the save directory cannot be made: the worker comes from its
\* first write straight to its terminal write
NoSaveDir == [Fine(CalmEnv) EXCEPT !.mkdir = "oserror"]

\* the handlers, one task and its worker, the cleanup thread and the time of its
\* sleeps
BothLocksNext ==
    \/ \E c \in Handlers : GuardCall(c)
    \/ \E c \in Handlers : GuardAcquire(c)
    \/ \E c \in Handlers : GuardCheck(c)
    \/ \E c \in Handlers : GuardStart(c)
    \/ \E c \in Handlers : GuardStartFails(c)
    \/ \E c \in Handlers : GuardSet(c)
    \/ \E c \in Handlers : RegistryWait(c)
    \/ \E c \in Handlers : RegistryAcquire(c)
    \/ \E c \in Handlers : RegistryRelease(c)
    \/ Post
    \/ StartWorker(1)
    \/ StartWorkerFails(1)
    \/ WorkerStart(1)
    \/ Begin(1, {NoSaveDir})
    \/ WorkerWriteStatus(1)
    \/ WorkerWriteRest(1)
    \/ Asleep
    \/ SweepWake
    \/ SweepCycle
    \/ SweepCycleRaises

\* Fair scheduling.  A thread inside a with block takes its next step (weak
\* fairness); time passes and a sleep that is over returns.  A thread blocked in
\* Lock.acquire() is not passed over for ever: when the lock is free again and again,
\* the thread gets it (strong fairness).  Nothing is required of the requests: no
\* handler has to call, and the worker may stay in a download for ever.
BothLocksSpec ==
    /\ StatusInit
    /\ [][BothLocksNext]_vars
    /\ \A c \in Handlers :
          /\ SF_vars(GuardAcquire(c))
          /\ WF_vars(GuardCheck(c))
          /\ WF_vars(GuardStart(c) \/ GuardStartFails(c))
          /\ WF_vars(GuardSet(c))
          /\ SF_vars(RegistryAcquire(c))
          /\ WF_vars(RegistryRelease(c))
    /\ SF_vars(WorkerStart(1))
    /\ SF_vars(WorkerWriteStatus(1))
    /\ WF_vars(WorkerWriteRest(1))
    /\ WF_vars(Asleep)
    /\ WF_vars(SweepWake)
    /\ SF_vars(SweepCycle \/ SweepCycleRaises)

-----------------------------------------------------------------------------
(* A caller that polls: it sends its next GET for the same task_id once the one    *)
(* before is answered, and keeps what the answers reported                         *)

NotFound == "not found"

\* what a response reports: the status of a 200, NotFound for a 404
Reported(request) == IF request.code = 200 THEN request.body.status ELSE NotFound

\* what the answers before the request in flight reported, oldest first
Seen(request) == IF "seen" \in DOMAIN request THEN request.seen ELSE <<>>

\* the caller's next request arrives: _ensure_cleanup_thread_started(), which finds
\* the thread started by the request before
GetAgain(c) ==
    /\ AtGet(c, "responded")
    /\ Len(Seen(clients[c])) + 1 < MaxPolls
    /\ clients' = [clients EXCEPT ![c] =
                      SetKeys(@, [pc |-> "lookup", code |-> 0, body |-> <<>>,
                                  seen |-> Append(Seen(clients[c]), Reported(clients[c]))])]
    /\ sweeper' = EnsureStarted(sweeper, now)
    /\ UNCHANGED <<jobs, nextId, req, wk, fs, tmp, probe, now, detached, jobs_lock>>

\* one task, its worker and the callers; the clock stands still, so nothing is removed
PollNext ==
    \/ Accept({LeanItem}, 1)
    \/ StartWorker(1)
    \/ StartWorkerFails(1)
    \/ WorkerStart(1)
    \/ OrchBegin(1, LeanEnv)
    \/ ProgressiveUnique(1)
    \/ ProgressiveDownload(1, LeanEnv)
    \/ WorkerWriteStatus(1)
    \/ WorkerWriteRest(1)
    \/ \E c \in Clients : GetBegin(c)
    \/ \E c \in Clients : GetLookup(c)
    \/ \E c \in Clients : GetStatus(c)
    \/ \E c \in Clients : GetIfCompleted(c)
    \/ \E c \in Clients : GetResult(c)
    \/ \E c \in Clients : GetIfFailed(c)
    \/ \E c \in Clients : GetError(c)
    \/ \E c \in Clients : GetAgain(c)

PollSpec == StatusInit /\ [][PollNext]_vars

-----------------------------------------------------------------------------
(* health(): GET /api/health *)

\* list(jobs.values()): the records in the order of their insertion, each a reference
Snapshot(registry) ==
    [i \in 1..Cardinality(DOMAIN registry) |->
        CHOOSE t \in DOMAIN registry : Cardinality({u \in DOMAIN registry : u <= t}) = i]

NoCounts == [queued |-> 0, in_progress |-> 0, completed |-> 0, failed |-> 0, total |-> 0]

AtHealth(c, pc) == c \in DOMAIN clients /\ clients[c].kind = "health" /\ clients[c].pc = pc

\* the request arrives: _ensure_cleanup_thread_started()
HealthBegin(c) ==
    /\ c \notin DOMAIN clients
    /\ clients' = Put(clients, c,
                      [kind |-> "health", pc |-> "snapshot", code |-> 0, snapshot |-> <<>>,
                       position |-> 1, counts |-> NoCounts,
                       during |-> {Counts([t \in DOMAIN jobs |-> jobs[t].status])}])
    /\ sweeper' = EnsureStarted(sweeper, now)
    /\ UNCHANGED <<jobs, nextId, req, wk, fs, tmp, probe, now, detached, jobs_lock>>

\* with jobs_lock: snapshot = list(jobs.values()); counts = {..., "total": len(snapshot)}
HealthSnapshot(c) ==
    /\ AtHealth(c, "snapshot")
    /\ ~Locked
    /\ clients' = [clients EXCEPT ![c].pc = "count",
                                   ![c].snapshot = Snapshot(jobs),
                                   ![c].counts = [NoCounts EXCEPT !.total = Len(Snapshot(jobs))]]
    /\ jobs_lock' = WithBlock(jobs_lock, Client(c))
    /\ UNCHANGED <<jobs, nextId, req, wk, fs, tmp, probe, now, sweeper, detached>>

\* one turn of the loop: status = task.get("status"); counts[status] += 1
HealthCount(c) ==
    /\ AtHealth(c, "count")
    /\ clients[c].position <= Len(clients[c].snapshot)
    /\ LET status == Deref(clients[c].snapshot[clients[c].position]).status
       IN  clients' = [clients EXCEPT ![c].position = @ + 1,
                                      ![c].counts[status] = @ + 1]
    /\ UNCHANGED <<jobs, nextId, req, wk, fs, tmp, probe, now, sweeper, detached, jobs_lock>>

\* the loop is over: the response, 200, with task_counts
HealthRespond(c) ==
    /\ AtHealth(c, "count")
    /\ clients[c].position > Len(clients[c].snapshot)
    /\ clients' = [clients EXCEPT ![c].pc = "responded", ![c].code = 200]
    /\ UNCHANGED <<jobs, nextId, req, wk, fs, tmp, probe, now, sweeper, detached, jobs_lock>>

\* requests, their workers and the health requests
HealthNext ==
    \/ Accept({LeanItem}, MaxTasks)
    \/ \E task_id \in TaskIds : StartWorker(task_id)
    \/ \E task_id \in TaskIds : StartWorkerFails(task_id)
    \/ \E task_id \in TaskIds : WorkerStart(task_id)
    \/ \E task_id \in TaskIds : OrchBegin(task_id, LeanEnv)
    \/ \E task_id \in TaskIds : ProgressiveUnique(task_id)
    \/ \E task_id \in TaskIds : ProgressiveDownload(task_id, LeanEnv)
    \/ \E task_id \in TaskIds : WorkerFinish(task_id)
    \/ \E c \in Clients : HealthBegin(c)
    \/ \E c \in Clients : HealthSnapshot(c)
    \/ \E c \in Clients : HealthCount(c)
    \/ \E c \in Clients : HealthRespond(c)

HealthSpec == StatusInit /\ [][HealthNext]_vars

-----------------------------------------------------------------------------
(* jobs_lock and the calls that block: a request of each kind, its worker with    *)
(* the provider, the filesystem and the muxer, and the cleanup thread.  The       *)
(* terminal write is taken in two steps, with the lock held between them.         *)

LockItems ==
    {Item(Mp4, Q720, <<"a">>), Item(Mp4, <<"1", "0", "8", "0", "p">>, <<" ">>),
     Item(Mp3, <<"1", "2", "8">>, <<"a">>)}

LockNext ==
    \/ Accept(LockItems, 1)
    \/ StartWorker(1)
    \/ StartWorkerFails(1)
    \/ WorkerStart(1)
    \/ OrchBegin(1, LeanEnv)
    \/ ProgressiveUnique(1)
    \/ ProgressiveDownload(1, LeanEnv)
    \/ AdaptiveSelect(1, LeanEnv)
    \/ MakeScratch(1, LeanEnv)
    \/ FetchVideo(1, LeanEnv)
    \/ FetchAudio(1, LeanEnv)
    \/ AdaptiveUnique(1)
    \/ Merge(1, LeanEnv)
    \/ Mp3Unique(1)
    \/ Mp3Download(1, LeanEnv)
    \/ WorkerWriteStatus(1)
    \/ WorkerWriteRest(1)
    \/ Tick
    \/ SweepWake
    \/ SweepCycle

LockSpec == SweepInit /\ [][LockNext]_vars

-----------------------------------------------------------------------------
(* The claims *)

Max(S) == CHOOSE x \in S : \A y \in S : y <= x

Min(S) == CHOOSE x \in S : \A y \in S : x <= y

StatusOf(task_id) == jobs[task_id].status

WorkerSteps == {<<"queued", "in_progress">>, <<"in_progress", "completed">>,
                <<"in_progress", "failed">>}

\* C1, as claimed: a task's status changes only along queued -> in_progress and
\* in_progress -> completed or failed, whichever code path writes it.
C1_OnlyWorkerSteps ==
    [][\A t \in DOMAIN jobs \cap DOMAIN jobs' :
          jobs'[t].status # jobs[t].status
             => <<jobs[t].status, jobs'[t].status>> \in WorkerSteps]_vars

\* C1, amended: a task is created queued and its status changes only along
\* queued -> in_progress and in_progress -> completed or failed, written by its worker,
\* or along queued -> failed, written by download() when it could not start the worker
\* (a task that never has a worker); no status ever moves backwards.
C1_StatusOrder ==
    [][/\ \A t \in DOMAIN jobs' \ DOMAIN jobs : jobs'[t].status = "queued"
       /\ \A t \in DOMAIN jobs \cap DOMAIN jobs' :
             jobs'[t].status # jobs[t].status
                => \/ /\ <<jobs[t].status, jobs'[t].status>> \in WorkerSteps
                      /\ t \in DOMAIN wk
                   \/ /\ <<jobs[t].status, jobs'[t].status>> = <<"queued", "failed">>
                      /\ t \notin DOMAIN wk'
                      /\ req'[t].pc = "500"]_vars

\* C1, witness: one task failed by download() without a worker, another brought to
\* completed by its worker
C1_Witness ==
    \E t, u \in DOMAIN jobs :
        /\ StatusOf(t) = "failed" /\ req[t].pc = "500" /\ t \notin DOMAIN wk
        /\ StatusOf(u) = "completed" /\ u \in DOMAIN wk /\ wk[u].pc = "done"

\* C2: a task record has a result if and only if its status is completed and an error
\* if and only if its status is failed; so a queued or in_progress task has neither and
\* no task has both.
C2_ResultIffCompleted ==
    \A t \in DOMAIN jobs :
        /\ "result" \in DOMAIN jobs[t] <=> StatusOf(t) = "completed"
        /\ "error" \in DOMAIN jobs[t] <=> StatusOf(t) = "failed"

\* C2, witness: a completed task with its result beside a failed task with its error
C2_Witness ==
    \E t, u \in DOMAIN jobs :
        /\ StatusOf(t) = "completed" /\ "result" \in DOMAIN jobs[t]
        /\ StatusOf(u) = "failed" /\ "error" \in DOMAIN jobs[u] /\ u \in DOMAIN wk

\* C3: under fair scheduling, with every call returning or raising, every task that
\* was created eventually has status completed or failed.
C3_EventuallyTerminal ==
    \A t \in TaskIds :
        (t \in DOMAIN jobs) ~> (t \in DOMAIN jobs /\ StatusOf(t) \in Terminal)

\* C3, witness: a task completed by its worker after the unique-path loop went round
\* and the merge pipeline ran
C3_Witness ==
    \E t \in DOMAIN wk :
        /\ wk[t].pc = "done"
        /\ StatusOf(t) = "completed"
        /\ ~IsBatch(wk[t].payload)
        /\ "merge" \in DOMAIN jobs[t].result
        /\ jobs[t].result.save_path = Numbered(<<"a">>, 1, DotMp4)

\* C4: no failure of the orchestrator escapes a single-item worker, and once the
\* worker has finished, a failure of any kind is on the task as status failed with the
\* failure's message as error.
C4_FailureRecorded ==
    \A t \in DOMAIN wk :
        ~IsBatch(wk[t].payload) =>
            /\ wk[t].pc # "crashed"
            /\ (wk[t].pc = "done" /\ wk[t].outcome.raised) =>
                  /\ StatusOf(t) = "failed"
                  /\ jobs[t].error = wk[t].outcome.msg

\* C4, witness: a finished single-item worker whose orchestrator let a provider fault
\* through unwrapped (not a ValueError)
C4_Witness ==
    \E t \in DOMAIN wk :
        /\ ~IsBatch(wk[t].payload)
        /\ wk[t].pc = "done"
        /\ wk[t].outcome.raised
        /\ wk[t].outcome.kind = "Exception"
        /\ StatusOf(t) = "failed"

BatchTasks == {t \in DOMAIN req : IsBatch(req[t].payload)}

\* C5, as claimed: a batch task's terminal status is always completed, never failed.
C5_BatchNeverFailed ==
    \A t \in BatchTasks : StatusOf(t) \in Terminal => StatusOf(t) = "completed"

\* C5, amended: a batch task whose worker was started ends completed, never failed,
\* whatever the outcomes of its items, also when every item fails; a batch task is
\* failed only when download() could not start its worker.
C5_BatchCompletedByWorker ==
    \A t \in BatchTasks :
        /\ (t \in DOMAIN wk /\ StatusOf(t) \in Terminal) =>
              /\ StatusOf(t) = "completed"
              /\ wk[t].pc = "done"
        /\ (t \in DOMAIN wk /\ wk[t].pc = "done") => StatusOf(t) = "completed"
        /\ StatusOf(t) = "failed" => (t \notin DOMAIN wk /\ req[t].pc = "500")

\* C5, witness: a batch whose every item failed, completed by its worker
C5_Witness ==
    \E t \in BatchTasks :
        /\ t \in DOMAIN wk
        /\ wk[t].pc = "done"
        /\ wk[t].failed_count = Len(wk[t].payload.videos)
        /\ StatusOf(t) = "completed"
        /\ \A i \in 1..Len(jobs[t].result.items) : jobs[t].result.items[i].status = "failed"

\* C6: once a batch worker has left its loop, the orchestrator was invoked for every
\* item exactly once, in input order, whether or not earlier items failed, and the
\* items list has one outcome per item, outcome i with index i, carrying a result if
\* it completed and an error if it failed, never both.
C6_EveryItemOnce ==
    \A t \in DOMAIN wk :
        (IsBatch(wk[t].payload) /\ wk[t].pc \in {"finish", "done"}) =>
            LET n == Len(wk[t].payload.videos)
                items == wk[t].item_results
            IN  /\ wk[t].invoked = [i \in 1..n |-> i - 1]
                /\ Len(items) = n
                /\ \A i \in 1..n :
                      /\ items[i].index = i - 1
                      /\ items[i].status \in Terminal
                      /\ "result" \in DOMAIN items[i] <=> items[i].status = "completed"
                      /\ "error" \in DOMAIN items[i] <=> items[i].status = "failed"
                /\ wk[t].pc = "done" => jobs[t].result.items = items

\* C6, witness: a finished batch whose first item failed and whose second completed
C6_Witness ==
    \E t \in DOMAIN wk :
        /\ IsBatch(wk[t].payload)
        /\ wk[t].pc = "done"
        /\ Len(wk[t].item_results) >= 2
        /\ wk[t].item_results[1].status = "failed"
        /\ wk[t].item_results[2].status = "completed"

CountOf(items, status) == Cardinality({i \in 1..Len(items) : items[i].status = status})

\* C7: for every completed batch task, summary.total is the number of submitted
\* items, summary.completed and summary.failed count the items of each outcome, and
\* completed + failed = total.
C7_SummaryCounts ==
    \A t \in BatchTasks :
        StatusOf(t) = "completed" =>
            LET result == jobs[t].result
            IN  /\ result.summary.total = Len(req[t].payload.videos)
                /\ result.summary.completed = CountOf(result.items, "completed")
                /\ result.summary.failed = CountOf(result.items, "failed")
                /\ result.summary.completed + result.summary.failed = result.summary.total

\* C7, witness: a completed batch of which one item completed and one failed
C7_Witness ==
    \E t \in BatchTasks :
        /\ StatusOf(t) = "completed"
        /\ jobs[t].result.summary.completed = 1
        /\ jobs[t].result.summary.failed = 1

\* the heights of the candidate streams whose label parses to a height
HeightsOf(labels) ==
    {_resolution_to_int(labels[i]) : i \in 1..Len(labels)} \ {NoHeight}

\* C8: for every requested height H and every non-empty set S of candidate heights,
\* each of the two mp4 resolvers returns a stream of the greatest height of S that is
\* <= H, or of min(S) when no height of S is <= H; the selected height exceeds H only
\* in that fallback case.
C8_GreatestAtOrBelow ==
    ("selected" \in DOMAIN probe) =>
        LET S == HeightsOf(probe.labels)
            H == _resolution_to_int(probe.normalized_quality)
            selected == probe.selected
        IN  (H # NoHeight /\ S # {}) =>
                /\ ~selected.raised
                /\ selected.value.h =
                      IF \E h \in S : h <= H THEN Max({h \in S : h <= H}) ELSE Min(S)
                /\ _resolution_to_int(selected.value.s.resolution) = selected.value.h
                /\ selected.value.h > H => \A h \in S : h > H

\* C8, witness: the adaptive resolver asked for a height that is offered, beside a
\* higher and a lower one, has returned the stream of that height
C8_Witness ==
    /\ "selected" \in DOMAIN probe
    /\ probe.resolver = "adaptive"
    /\ ~probe.selected.raised
    /\ probe.selected.value.h = _resolution_to_int(probe.normalized_quality)
    /\ \E h, k \in HeightsOf(probe.labels) : h < probe.selected.value.h /\ probe.selected.value.h < k

\* C9: normalizing a normalized quality for the same format returns it unchanged, for
\* every input and both formats, also with surrounding blanks, upper-case suffixes and
\* inputs no rule applies to.
C9_NormalizeIdempotent ==
    ("twice" \in DOMAIN probe) => probe.twice = probe.once

\* C9, witness: a quality with a blank before it and digits alone, normalized twice
C9_Witness ==
    /\ "twice" \in DOMAIN probe
    /\ probe.quality # <<>>
    /\ Head(probe.quality) = " "
    /\ IsDigit(Strip(probe.quality))
    /\ probe.once # Strip(probe.quality)

AdaptiveSteps == {"a_select", "a_tmp", "a_video", "a_audio", "a_unique", "a_merge"}

\* the calls for mp4 at a height up to the ceiling
AtOrBelowCeiling ==
    {t \in DOMAIN wk :
        /\ wk[t].pc \notin {"start", "call"}
        /\ wk[t].frame.requested_format = Mp4
        /\ wk[t].frame.requested_height # NoHeight
        /\ wk[t].frame.requested_height <= ProgressiveCeiling}

\* the call of worker t has entered the merge pipeline
InMergePipeline(t) == wk[t].pc \in AdaptiveSteps \/ wk[t].frame.did # {} \/ t \in tmp

\* C10, as claimed: a call for mp4 at a height <= 720 never enters the merge pipeline
\* (muxer resolution, adaptive selection, scratch directory, muxer invocation).
C10_NoMergeAtOrBelowCeiling ==
    \A t \in AtOrBelowCeiling : ~InMergePipeline(t)

\* C10, amended: a call for mp4 at a height <= 720 enters the merge pipeline only
\* after progressive selection raised ValueError; when progressive selection returns
\* a stream, there is no muxer resolution, no adaptive selection, no scratch directory
\* and no muxer invocation.
C10_MergeOnlyAfterProgressiveFailed ==
    \A t \in AtOrBelowCeiling :
        /\ wk[t].frame.progressive \in {"selected", "failed"}
        /\ InMergePipeline(t) => wk[t].frame.progressive = "failed"
        /\ wk[t].frame.progressive = "selected" => ~InMergePipeline(t)

\* C10, witness: a call for 720p whose progressive selection found no stream and that
\* returned a merged file, and the muxer was invoked
C10_Witness ==
    \E t \in AtOrBelowCeiling :
        /\ wk[t].pc = "done"
        /\ wk[t].frame.progressive = "failed"
        /\ "muxer" \in wk[t].frame.did
        /\ StatusOf(t) = "completed"

\* the calls for mp4 at a height above the ceiling
AboveCeiling ==
    {t \in DOMAIN wk :
        /\ wk[t].pc \notin {"start", "call"}
        /\ wk[t].frame.requested_format = Mp4
        /\ wk[t].frame.requested_height > ProgressiveCeiling}

\* what the last call of worker t returned or raised
LastOutcome(t) ==
    IF IsBatch(wk[t].payload)
    THEN LET item == wk[t].item_results[Len(wk[t].item_results)]
         IN  IF item.status = "completed" THEN Return(item.result)
             ELSE Raise("Exception", item.error)
    ELSE wk[t].outcome

\* C11: a call for mp4 at a height > 720 takes the adaptive path: progressive
\* selection and progressive download are never attempted, and a result it returns
\* carries the merge marker (and the muxer was invoked for it).
C11_AboveCeilingMerges ==
    \A t \in AboveCeiling :
        /\ wk[t].frame.progressive = "not tried"
        /\ wk[t].pc \notin {"p_unique", "p_download"}
        /\ (wk[t].pc \in {"finish", "done"} /\ ~LastOutcome(t).raised) =>
              /\ "merge" \in DOMAIN LastOutcome(t).value
              /\ LastOutcome(t).value.merge = "ffmpeg"
              /\ "muxer" \in wk[t].frame.did

\* C11, witness: a task for 1080p completed with a merged file of the height selected
\* among the adaptive streams
C11_Witness ==
    \E t \in AboveCeiling :
        /\ wk[t].pc = "done"
        /\ StatusOf(t) = "completed"
        /\ jobs[t].result.merge = "ffmpeg"
        /\ wk[t].frame.selected_height = 1080

\* the k-th candidate of _resolve_unique_path: stem+suffix, then stem (1)+suffix, ...
Candidate(stem, suffix, k) == IF k = 0 THEN stem \o suffix ELSE Numbered(stem, k, suffix)

\* the steps of the orchestrator that write the file at output_path
WriteSteps == {"p_download", "a_merge", "m_download"}

SuffixOf(frame) == IF frame.requested_format = Mp4 THEN DotMp4 ELSE DotMp3

\* path is the first candidate for the frame's name that is not in the directory
FirstFree(frame, path, directory) ==
    /\ path \notin directory
    /\ \E k \in 0..Cardinality(directory) :
          /\ path = Candidate(frame.safe_stem, SuffixOf(frame), k)
          /\ \A j \in 0..(k - 1) : Candidate(frame.safe_stem, SuffixOf(frame), j) \in directory

\* the finished batches of two items that both completed, for one name and format
TwoInSequence ==
    {t \in DOMAIN wk :
        /\ IsBatch(wk[t].payload)
        /\ wk[t].pc \in {"finish", "done"}
        /\ Len(wk[t].item_results) = 2
        /\ \A i \in {1, 2} : wk[t].item_results[i].status = "completed"
        /\ wk[t].payload.videos[1].name = wk[t].payload.videos[2].name
        /\ wk[t].item_results[1].result.format = wk[t].item_results[2].result.format}

\* C12: with no other worker at work, the path a call computes does not exist when
\* it is computed and is the first candidate stem+suffix, stem (1)+suffix, ... that
\* does not; so two successful calls in sequence for one name, format and folder
\* yield one candidate and then the next one, and both files are there.
C12_FirstFreeCandidate ==
    /\ \A t \in DOMAIN wk :
          wk[t].pc \in WriteSteps => FirstFree(wk[t].frame, wk[t].frame.output_path, fs)
    /\ \A t \in TwoInSequence :
          LET first == wk[t].item_results[1].result.save_path
              second == wk[t].item_results[2].result.save_path
          IN  /\ first # second
              /\ {first, second} \subseteq fs
              /\ FirstFree(wk[t].frame, second, fs \ {second})
              /\ \E k \in 0..Cardinality(fs) :
                    /\ first = Candidate(wk[t].frame.safe_stem, SuffixOf(wk[t].frame), k)
                    /\ second = Candidate(wk[t].frame.safe_stem, SuffixOf(wk[t].frame), k + 1)

\* C12, witness: two calls in sequence for the name a left a.mp4 and then a (1).mp4
C12_Witness ==
    \E t \in TwoInSequence :
        /\ wk[t].pc = "done"
        /\ wk[t].item_results[1].result.save_path = <<"a">> \o DotMp4
        /\ wk[t].item_results[2].result.save_path = Numbered(<<"a">>, 1, DotMp4)
        /\ jobs[t].result.items[2].result.name = <<"a", " ", "(", "1", ")">>

\* the files the registry records as saved: <<task, item, save_path>>
Saves ==
    UNION {IF StatusOf(t) # "completed" THEN {}
           ELSE IF IsBatch(wk[t].payload)
           THEN {<<t, i, jobs[t].result.items[i].result.save_path>> :
                    i \in {j \in DOMAIN jobs[t].result.items :
                              jobs[t].result.items[j].status = "completed"}}
           ELSE {<<t, 0, jobs[t].result.save_path>>} : t \in DOMAIN jobs \cap DOMAIN wk}

\* the workers about to write to a path that exists
Overwriting ==
    {t \in DOMAIN wk : wk[t].pc \in WriteSteps /\ wk[t].frame.output_path \in fs}

\* C13, as claimed: whatever the interleaving of the workers, no download or merge
\* writes to a path that exists, and the save_paths recorded for one name, format
\* and folder are pairwise distinct.
C13_NoOverwrite ==
    /\ Overwriting = {}
    /\ \A a, b \in Saves : a # b => a[3] # b[3]

\* the age the cleanup cycle computes for a task: now - finished_at
Age(record, time) == time - record.finished_at_unix

\* the effective retention window: TASK_RETENTION_MINUTES in seconds, at least 60
Window == Max({RetentionFloor, sweeper.retention_minutes * 60})

\* C14: after one cleanup cycle, every completed or failed task whose finished_at
\* lies a retention window or more before the time the cycle read is gone from the
\* registry, and every task that finished later, or has not finished, is still in it.
C14_SweepRemovesExactlyOld ==
    [][sweeper.pc = "scan" /\ sweeper'.pc = "sleep" =>
          \A t \in DOMAIN jobs :
              IF jobs[t].status \in Terminal /\ Age(jobs[t], sweeper.now) >= Window
              THEN t \notin DOMAIN jobs'
              ELSE t \in DOMAIN jobs' /\ jobs'[t] = jobs[t]]_vars

\* C14, witness: one cycle has removed a finished task and kept a later one
C14_Witness ==
    /\ sweeper.pc = "sleep"
    /\ \E old \in DOMAIN detached, new \in DOMAIN jobs :
          /\ jobs[new].status \in Terminal
          /\ Age(detached[old], now) >= Window
          /\ Age(jobs[new], now) < Window
          /\ Age(jobs[new], now) >= 0

\* the GET requests that have been answered
Answered == {c \in DOMAIN clients : clients[c].kind = "get" /\ clients[c].pc = "responded"}

\* C15: a GET is answered 404 whenever its task_id is not in the registry at the
\* lookup, and only then: for an id no task ever had and for an id the cleanup
\* removed; an id once removed never is in the registry again.
C15_NotFoundWhenAbsent ==
    [][/\ \A c \in DOMAIN clients \cap DOMAIN clients' :
             AtGet(c, "lookup") /\ clients'[c].pc # "lookup" =>
                 IF clients[c].task_id \in DOMAIN jobs
                 THEN clients'[c].pc = "status"
                 ELSE /\ clients'[c].pc = "responded"
                      /\ clients'[c].code = 404
                      /\ clients'[c].body = [error |-> "Task not found."]
                      /\ clients[c].task_id \in {NeverCreated} \cup DOMAIN detached
       /\ \A c \in DOMAIN clients :
             c \in Answered /\ clients[c].code = 404 => clients[c].task_id \notin DOMAIN jobs'
       /\ DOMAIN detached \subseteq DOMAIN detached'
       /\ DOMAIN detached' \cap DOMAIN jobs' = {}
       /\ NeverCreated \notin DOMAIN jobs']_vars

\* C15, witness: a GET for a task the cleanup removed was answered 404
C15_Witness ==
    \E c \in Answered :
        /\ clients[c].task_id \in DOMAIN detached
        /\ clients[c].code = 404

\* the answered GET requests for the task of a request that was answered 202
AnsweredAfter202 ==
    {c \in Answered : clients[c].task_id \in DOMAIN req /\ req[clients[c].task_id].pc = "202"}

\* C16, as claimed: a GET for a task whose request was answered 202 is answered 200
\* with status queued, the task not having been removed.
C16_QueuedAfter202 ==
    \A c \in AnsweredAfter202 :
        clients[c].task_id \in DOMAIN jobs =>
            clients[c].code = 200 /\ clients[c].body.status = "queued"

\* C16, amended: the record is in the registry before the 202 response is sent, and
\* is queued until the worker's first write; a GET after the 202 is answered 200 with
\* the status the task has when the handler reads it, queued, in_progress, completed
\* or failed, and 404 only once the cleanup has removed the task.
C16_VisibleAfter202 ==
    /\ \A t \in DOMAIN req :
          req[t].pc = "202" =>
              /\ t \in DOMAIN jobs \cup DOMAIN detached
              /\ wk[t].pc = "start" => t \in DOMAIN jobs /\ jobs[t].status = "queued"
    /\ \A c \in AnsweredAfter202 :
          LET t == clients[c].task_id
          IN  /\ clients[c].code \in {200, 404}
              /\ clients[c].code = 404 => t \in DOMAIN detached
              /\ clients[c].code = 200 =>
                    /\ clients[c].body.task_id = t
                    /\ clients[c].body.status \in {"queued", "in_progress"} \cup Terminal
                    /\ wk[t].pc = "start" => clients[c].body.status = "queued"
                    /\ clients[c].body.status \in Terminal => Deref(t).status \in Terminal

\* C16, witness: a GET after the 202 was answered 200 with status queued
C16_Witness ==
    \E c \in AnsweredAfter202 :
        /\ clients[c].code = 200
        /\ clients[c].body.status = "queued"
        /\ StatusOf(clients[c].task_id) = "queued"

\* C19, as claimed: a 200 response of GET shows one state of the task: it has a
\* result exactly when the status it reports is completed, and that result is the
\* one recorded on the task; it has an error exactly when that status is failed.
C19_ResponseIsOneState ==
    \A c \in Answered :
        clients[c].code = 200 =>
            LET body == clients[c].body
                task == Deref(clients[c].task_id)
            IN  /\ "result" \in DOMAIN body <=> body.status = "completed"
                /\ "error" \in DOMAIN body <=> body.status = "failed"
                /\ "result" \in DOMAIN body =>
                      "result" \in DOMAIN task /\ body.result = task.result

\* the POST requests that were turned down
TurnedDown == {c \in DOMAIN clients : clients[c].kind = "post"}

\* C17, as claimed: a request whose validation fails leaves the registry as it was,
\* creates no task and starts no worker, and is answered 400; so is a batch with an
\* invalid item, none of whose items is processed.
C17_RejectedWith400 ==
    [][\A c \in DOMAIN clients' \ DOMAIN clients :
          clients'[c].kind = "post" /\ _validate_payload(clients'[c].payload).status_code # 200
             => /\ jobs' = jobs
                /\ wk' = wk
                /\ req' = req
                /\ nextId' = nextId
                /\ fs' = fs
                /\ clients'[c].code = 400]_vars

\* C18, as claimed: a POST is answered 202, with a task in the registry and a worker
\* started for it, or 400, with no task; no task exists whose POST was answered otherwise.
C18_Only202Or400 ==
    /\ \A t \in DOMAIN req : req[t].pc \in {"created", "202"}
    /\ \A t \in DOMAIN req : req[t].pc = "202" => t \in DOMAIN jobs /\ t \in DOMAIN wk
    /\ \A c \in TurnedDown : clients[c].code = 400

\* C18, amended: a task record exists for a POST exactly when it is answered 202,
\* with a worker started, or 500 because the worker could not be started, the record
\* then marked failed and no worker running; every other answer, the 400 of a
\* validation error and the 500 of a validation that raised, comes with no task.
C18_TaskIff202OrStartFailure ==
    [][/\ DOMAIN jobs' = DOMAIN req'
       /\ \A t \in DOMAIN req' :
             /\ req'[t].pc \in {"created", "202", "500"}
             /\ req'[t].pc = "202" <=> t \in DOMAIN wk'
             /\ req'[t].pc = "500" => jobs'[t].status = "failed"
             /\ req'[t].pc = "created" => jobs'[t].status = "queued"
       /\ \A c \in TurnedDown' :
             /\ clients'[c].code \in {400, 500}
             /\ c \notin DOMAIN clients => jobs' = jobs /\ wk' = wk /\ req' = req]_vars

\* C18, witness: one POST was answered 500 with its task marked failed and no worker,
\* another 400 with no task
C18_Witness ==
    /\ \E t \in DOMAIN req :
          req[t].pc = "500" /\ jobs[t].status = "failed" /\ t \notin DOMAIN wk
    /\ \E c \in TurnedDown : clients[c].code = 400

\* C20, as claimed: the task_counts a health request reports are the counts of one
\* state the registry was in between the arrival of the request and its response.
C20_CountsOfOneState ==
    \A c \in DOMAIN clients :
        AtHealth(c, "responded") => clients[c].counts \in clients[c].during

\* the bitrate labels the provider offers to the request
OfferedLabels == {probe.offered[i] : i \in 1..Len(probe.offered)}

\* the normalized quality of the request
AskedBitrate == _normalize_quality(Strip(probe.quality), Mp3)

\* the mp3 calls that have made their selection
Mp3Selected ==
    {t \in DOMAIN wk : wk[t].pc \in {"m_unique", "m_download", "finish", "done"}}

\* C21: for an mp3 request the stream selected has exactly the normalized bitrate
\* asked for; when no stream offered has that label the call fails with the
\* not-found error, and no file is written: there is no nearest or lowest fallback.
C21_ExactBitrateOrNotFound ==
    \A t \in Mp3Selected :
        IF AskedBitrate \in OfferedLabels
        THEN /\ wk[t].frame.actual_quality = AskedBitrate
             /\ wk[t].pc \in {"finish", "done"} /\ ~wk[t].outcome.raised =>
                   /\ wk[t].outcome.value.actual_quality = AskedBitrate
                   /\ wk[t].outcome.value.requested_quality = AskedBitrate
        ELSE /\ wk[t].pc \in {"finish", "done"}
             /\ wk[t].outcome.raised
             /\ wk[t].outcome.msg = "No audio stream found for quality"
             /\ fs = {}

\* C21, witness: 64kbps and 160kbps were offered, 128 was asked for, and the task failed
C21_Witness ==
    /\ OfferedLabels = {Abr(64), Abr(160)}
    /\ AskedBitrate = Abr(128)
    /\ 1 \in DOMAIN wk
    /\ wk[1].pc = "done"
    /\ StatusOf(1) = "failed"
    /\ fs = {}

\* the tasks whose status a step writes: those it creates and those it changes
StatusWritten ==
    {t \in DOMAIN jobs' : t \notin DOMAIN jobs \/ jobs'[t].status # jobs[t].status}

\* C22: in every state of the registry seen under jobs_lock a task has
\* finished_at_unix if and only if it is completed or failed; the write that makes
\* a task completed or failed sets finished_at_unix in the same locked step, and
\* every write of a status, the creation included, sets updated_at to the time of
\* the write.
C22_FinishedIffTerminal ==
    /\ [](\A t \in DOMAIN jobs :
             "finished_at_unix" \in DOMAIN jobs[t] <=> jobs[t].status \in Terminal)
    /\ [][\A t \in StatusWritten :
             /\ "updated_at" \in DOMAIN jobs'[t]
             /\ jobs'[t].updated_at = now
             /\ jobs'[t].status \in Terminal =>
                   /\ "finished_at_unix" \in DOMAIN jobs'[t]
                   /\ jobs'[t].finished_at_unix = now]_vars

\* C22, witness: after the clock has advanced one task was completed by its worker,
\* stamped at that write, while another is at work with no finished_at_unix
C22_Witness ==
    \E a, b \in DOMAIN jobs :
        /\ jobs[a].status = "completed"
        /\ jobs[a].finished_at_unix > 0
        /\ jobs[a].updated_at = jobs[a].finished_at_unix
        /\ jobs[b].status = "in_progress"
        /\ jobs[b].updated_at > 0
        /\ "finished_at_unix" \notin DOMAIN jobs[b]

\* C23: whatever integers the two settings are, negative and zero included, the
\* retention the cleanup thread works with is max(60, minutes * 60) seconds and
\* the time it sleeps before a cycle is at least max(10, seconds) seconds; a task
\* is never removed less than 60 seconds after its finished_at_unix.
C23_FlooredSettings ==
    /\ [](sweeper.started =>
            /\ sweeper.retention_seconds = Max({RetentionFloor, sweeper.retention_minutes * 60})
            /\ sweeper.interval_seconds = Max({IntervalFloor, sweeper.cleanup_interval}))
    /\ [][/\ sweeper.pc = "sleep" /\ sweeper'.pc = "scan" =>
               sweeper'.now - sweeper.slept_at >= Max({IntervalFloor, sweeper.cleanup_interval})
          /\ \A t \in DOMAIN jobs \ DOMAIN jobs' :
               /\ now - jobs[t].finished_at_unix >= RetentionFloor
               /\ sweeper.now - jobs[t].finished_at_unix
                     >= Max({RetentionFloor, sweeper.retention_minutes * 60})]_vars

\* C23, witness: with both settings negative the task was removed by a cycle, a
\* minute or more after it finished
C23_Witness ==
    /\ sweeper.retention_minutes < 0
    /\ sweeper.cleanup_interval < 0
    /\ sweeper.retention_seconds = RetentionFloor
    /\ sweeper.interval_seconds = IntervalFloor
    /\ sweeper.slept_at > 0
    /\ \E t \in DOMAIN detached : now - detached[t].finished_at_unix >= RetentionFloor

\* the items of a validated payload
ItemsOf(payload) ==
    IF IsBatch(payload) THEN {payload.videos[i] : i \in 1..Len(payload.videos)}
    ELSE {payload}

\* an item with a required field that is missing, empty or not a string, or with a
\* format that is not supported
MalformedItem(item) ==
    \/ \E field \in REQUIRED_FIELDS :
          \/ field \notin DOMAIN item
          \/ field \in NotStrings(item)
          \/ item[field] = (IF field \in {"format", "quality"} THEN <<>> ELSE "")
    \/ Lower(Strip(item.format)) \notin ALLOWED_FORMATS

\* C24, as claimed: a request with a required field missing, empty or not a string,
\* or with an unsupported format, is answered 400 and no task is created for it; no
\* call of a worker fails because of such a field or format.
C24_MalformedNeverAccepted ==
    /\ \A t \in DOMAIN req : \A item \in ItemsOf(req[t].payload) : ~MalformedItem(item)
    /\ \A c \in TurnedDown :
          clients[c].payload.json = "object" /\ "videos" \notin DOMAIN clients[c].payload.value
             /\ MalformedItem(clients[c].payload.value)
          => clients[c].code = 400
    /\ \A t \in DOMAIN wk :
          wk[t].pc \in {"finish", "done"} /\ wk[t].outcome.raised =>
             wk[t].outcome.msg \notin {"object has no attribute 'strip'",
                                       "format must be either 'mp4' or 'mp3'"}

\* C25: at most one cleanup thread is ever started, however many handlers (and the
\* startup call) are inside _ensure_cleanup_thread_started() at the same time; once
\* a call has returned, exactly one has been started.
C25_StartedOnce ==
    /\ sweeper.launched <= 1
    /\ sweeper.started => sweeper.launched = 1
    /\ \A c \in DOMAIN clients : AtGuard(c, "returned") => sweeper.launched = 1

\* C25, witness: the startup call and every handler have returned from the guard,
\* and the one thread that was started is in a cycle
C25_Witness ==
    /\ \A c \in Handlers : AtGuard(c, "returned")
    /\ sweeper.launched = 1
    /\ sweeper.pc = "scan"

\* C26: a task leaves the registry only in a cycle of the cleanup thread, and only
\* if it is completed or failed and finished a retention window or more before the
\* time the cycle read; no step of a handler or of a worker removes a task, and a
\* queued or in_progress task stays, however old it is.
C26_OnlyCleanupRemoves ==
    [][/\ \A t \in DOMAIN jobs \ DOMAIN jobs' :
             /\ sweeper.pc = "scan" /\ sweeper'.pc = "sleep"
             /\ jobs[t].status \in Terminal
             /\ Age(jobs[t], sweeper.now) >= Window
       /\ \A t \in DOMAIN jobs :
             jobs[t].status \in {"queued", "in_progress"} => t \in DOMAIN jobs']_vars

\* C26, witness: a cycle has removed a finished task and has left in the registry
\* a task that was created before it and has been at work, unwritten, for a
\* retention window or more
C26_Witness ==
    \E gone \in DOMAIN detached, t \in DOMAIN jobs :
        /\ gone \notin DOMAIN jobs
        /\ t < gone
        /\ jobs[t].status = "in_progress"
        /\ sweeper.pc = "sleep"
        /\ sweeper.slept_at - jobs[t].updated_at >= Window

\* C27: the loop of the cleanup thread never ends: an exception raised inside a
\* cycle is swallowed and the thread sleeps again; under fair scheduling the thread,
\* once started, begins a cycle again and again, for ever.
C27_CyclesForEver ==
    /\ [](sweeper.started => sweeper.pc \in {"sleep", "scan"})
    /\ [](sweeper.started => <>(sweeper.pc = "scan"))
    /\ [](sweeper.pc = "scan" => <>(sweeper.pc = "sleep"))

\* C27, witness: the thread is in a cycle after a cycle whose exception was
\* printed, and a cycle has removed the task
C27_Witness ==
    /\ sweeper.printed
    /\ sweeper.pc = "scan"
    /\ detached # <<>>

\* the positions of a worker at which its next step is a call that blocks: the
\* provider, a download, the filesystem, the muxer
Blocking ==
    {"call", "p_unique", "p_download", "a_select", "a_tmp", "a_video", "a_audio",
     "a_unique", "a_merge", "m_unique", "m_download"}

\* C28: no thread is inside a with jobs_lock block while it is in a call that
\* blocks: a worker is not while it calls the provider, downloads, reads or writes
\* the filesystem or runs the muxer, the cleanup thread is not while it sleeps, and
\* a handler is not once its block has ended; the lock is held from one step to the
\* next only by a worker in the middle of its terminal write.
C28_LockNotHeldWhileBlocked ==
    /\ \A t \in DOMAIN wk : wk[t].pc \in Blocking => Worker(t) \notin jobs_lock
    /\ sweeper.pc = "sleep" => CleanupThread \notin jobs_lock
    /\ \A thread \in jobs_lock :
          thread[1] = "worker" /\ wk[thread[2]].pc = "write"

\* C28, witness: the worker is in the middle of its terminal write after a merge,
\* holding the lock, while the cleanup thread waits for it to begin its scan
C28_Witness ==
    /\ jobs_lock = {Worker(1)}
    /\ sweeper.pc = "scan"
    /\ "muxer" \in wk[1].frame.did

\* the step is a step of the worker of task t, and of no other thread
ByWorker(t) ==
    /\ t \in DOMAIN wk
    /\ wk'[t] # wk[t]
    /\ \A u \in DOMAIN wk \ {t} : wk'[u] = wk[u]
    /\ req' = req
    /\ sweeper' = sweeper

\* the step is download() marking task t failed, its worker not having started
ByFailedStart(t) ==
    /\ t \notin DOMAIN wk'
    /\ wk' = wk
    /\ sweeper' = sweeper
    /\ req[t].pc = "created"
    /\ req'[t].pc = "500"
    /\ jobs[t].status = "queued"
    /\ jobs'[t].status = "failed"

\* the records a step writes, their creation and their removal aside
Written == {t \in DOMAIN jobs \cap DOMAIN jobs' : jobs'[t] # jobs[t]}

\* C29, as claimed: once created, a task record is written by the worker started
\* for the task and by no other thread: no handler, no other worker, not the
\* cleanup thread.
C29_OnlyOwnWorkerWrites ==
    [][\A t \in Written : ByWorker(t)]_vars

\* C29, amended: once created, a task record is written by the worker started for
\* the task, or, for a task whose worker could not be started and that never has
\* one, once by download(), which marks it failed; by no other handler, no other
\* worker and not by the cleanup thread.
C29_OwnWorkerOrFailedStart ==
    [][\A t \in Written : ByWorker(t) \/ ByFailedStart(t)]_vars

\* C29, witness: one task was marked failed by download() and has no worker, while
\* another has been written by its worker and a cycle of the cleanup thread has
\* ended since
C29_Witness ==
    \E t, u \in DOMAIN jobs :
        /\ req[t].pc = "500" /\ t \notin DOMAIN wk /\ jobs[t].status = "failed"
        /\ u \in DOMAIN wk /\ jobs[u].status \in {"in_progress", "completed"}
        /\ sweeper.slept_at > jobs[u].updated_at

\* the mp4 calls for which the muxer has run
MuxerRan == {t \in DOMAIN wk : "muxer" \in wk[t].frame.did}

\* the heights of the video-only streams offered to the request
AdaptiveHeights == HeightsOf(probe.adaptive)

\* C30, as claimed: whenever the merge pipeline runs for an mp4 request, the height
\* of the stream selected is above 720 or progressive selection had failed: no
\* merged result has an actual quality of 720p or less unless progressive selection
\* was attempted and failed.
C30_MergedAboveCeilingSelected ==
    \A t \in MuxerRan :
        \/ wk[t].frame.selected_height > ProgressiveCeiling
        \/ wk[t].frame.progressive = "failed"

\* C30, amended: whenever the merge pipeline runs for an mp4 request, the height
\* requested is above 720 (and progressive selection was not attempted) or
\* progressive selection had failed.  The height selected for a request above 720
\* is the greatest height offered at or below the request, else the lowest offered:
\* it is 720 or less exactly when a video-only stream of 720 or less is offered and
\* none between 720, excluded, and the height requested.
C30_MergedAboveCeilingRequested ==
    \A t \in MuxerRan :
        /\ \/ /\ wk[t].frame.requested_height > ProgressiveCeiling
              /\ wk[t].frame.progressive = "not tried"
           \/ /\ wk[t].frame.requested_height <= ProgressiveCeiling
              /\ wk[t].frame.progressive = "failed"
        /\ wk[t].frame.requested_height > ProgressiveCeiling =>
              (wk[t].frame.selected_height <= ProgressiveCeiling
                 <=> /\ \E h \in AdaptiveHeights : h <= ProgressiveCeiling
                     /\ ~\E h \in AdaptiveHeights :
                            h > ProgressiveCeiling /\ h <= wk[t].frame.requested_height)

\* C30, witness: 1080p was asked for, 720p is the highest video-only stream and is
\* offered as a progressive stream too; the task completed with a merged file of 720p
\* and progressive selection was never attempted
C30_Witness ==
    /\ 1 \in MuxerRan
    /\ wk[1].pc = "done"
    /\ StatusOf(1) = "completed"
    /\ wk[1].frame.requested_height = 1080
    /\ wk[1].frame.selected_height = 720
    /\ wk[1].frame.progressive = "not tried"
    /\ jobs[1].result.merge = "ffmpeg"
    /\ jobs[1].result.actual_quality = Label(720)
    /\ Label(720) \in {probe.progressive[i] : i \in 1..Len(probe.progressive)}

-----------------------------------------------------------------------------
\* the steps of a call that are inside the with tempfile.TemporaryDirectory block
InsideWith == {"a_video", "a_audio", "a_unique", "a_merge"}

\* C31: a scratch directory exists only while its worker is inside the with block of
\* the merge pipeline: it is gone once the call has returned or raised, whichever
\* step failed (making the directory, a download, the path computation, the muxer),
\* and no directory exists when no worker is inside the block.
C31_ScratchOnlyInsideWith ==
    /\ \A t \in tmp : t \in DOMAIN wk /\ wk[t].pc \in InsideWith
    /\ (\A t \in DOMAIN wk : wk[t].pc \notin InsideWith) => tmp = {}

\* C31, witness: a call made its scratch directory, ran the muxer, which failed,
\* and has raised; another worker is inside the block with its directory
C31_Witness ==
    \E t \in DOMAIN wk, u \in DOMAIN wk :
        /\ wk[t].pc \in {"finish", "done"}
        /\ {"scratch", "muxer"} \subseteq wk[t].frame.did
        /\ LastOutcome(t).raised
        /\ t \notin tmp
        /\ u \in tmp

\* C32, as claimed: whatever step of the orchestrator fails and whatever the fault
\* under it, what the call raises to its worker is of the one uniform kind
\* (ValueError), never the raw fault.
C32_OnlyUniformErrors ==
    \A t \in DOMAIN wk : wk[t].outcome.raised => wk[t].outcome.kind = "ValueError"

\* C33, as claimed: in a call for mp4 at a height <= 720, every failure of progressive
\* selection (no usable candidate, or any fault of the provider while the streams
\* are enumerated) is followed by the adaptive path; the call never ends on it.
C33_ProgressiveFailureFallsBack ==
    \A t \in AtOrBelowCeiling :
        wk[t].frame.progressive = "failed" => InMergePipeline(t)

\* the places, in the order the provider returned the streams, of those of height h
PlacesOf(labels, h) == {i \in 1..Len(labels) : _resolution_to_int(labels[i]) = h}

\* the resolver asked has returned a stream
Resolved == "selected" \in DOMAIN probe /\ ~probe.selected.raised

\* C34, as claimed: of several candidates of the selected height, each resolver
\* returns the first in the order the provider returned them, when that height is
\* the greatest one <= H and when it is the fallback lowest height.
C34_FirstOfTies ==
    Resolved =>
        probe.selected.value.s.itag = Min(PlacesOf(probe.labels, probe.selected.value.h))

\* C34, amended: of several candidates of the selected height, each resolver returns
\* the first in the order the provider returned them when that height is <= H, and
\* the last of them when it is the fallback lowest height (no candidate is <= H).
C34_FirstOfTiesLastInFallback ==
    Resolved =>
        LET selected == probe.selected.value
            places == PlacesOf(probe.labels, selected.h)
        IN  selected.s.itag =
                IF selected.h <= _resolution_to_int(probe.normalized_quality)
                THEN Min(places) ELSE Max(places)

\* C34, witness: asked for less than every height offered, the progressive resolver
\* has returned one of two streams of the lowest height, a higher stream between them
C34_Witness ==
    /\ Resolved
    /\ probe.resolver = "progressive"
    /\ probe.selected.value.h > _resolution_to_int(probe.normalized_quality)
    /\ \E i, j, k \in 1..Len(probe.labels) :
          /\ i < j /\ j < k
          /\ {i, k} = PlacesOf(probe.labels, probe.selected.value.h)
          /\ _resolution_to_int(probe.labels[j]) > probe.selected.value.h

\* the workers whose last call of the orchestrator has returned or raised
Ended ==
    {t \in DOMAIN wk :
        \/ ~IsBatch(wk[t].payload) /\ wk[t].pc \in {"finish", "done"}
        \/ IsBatch(wk[t].payload) /\ wk[t].pc \in {"call", "finish", "done"}
                                  /\ wk[t].item_results # <<>>}

\* what _resolve_ffmpeg_path() raises
MuxerNotFound ==
    {_resolve_ffmpeg_path("missing", "none").msg, _resolve_ffmpeg_path("unset", "none").msg}

\* the calls that ended because the muxer executable could not be resolved
EndedWithoutMuxer ==
    {t \in Ended : LastOutcome(t).raised /\ LastOutcome(t).msg \in MuxerNotFound}

\* C35: the merge pipeline resolves the muxer executable first: whatever else the
\* pipeline did, it did after the resolution; a call that ended because the
\* executable could not be resolved (the not-found error) selected no adaptive
\* stream, made no scratch directory, fetched no stream and computed no output path,
\* and the step that ended it left the destination directory as it was.
C35_MuxerResolvedFirst ==
    [][/\ \A t \in DOMAIN wk' : wk'[t].frame.did # {} => "ffmpeg" \in wk'[t].frame.did
       /\ \A t \in EndedWithoutMuxer' :
             /\ wk'[t].frame.did = {"ffmpeg"}
             /\ wk'[t].frame.selected_height = NoHeight
             /\ wk'[t].frame.actual_quality = <<>>
             /\ wk'[t].frame.output_path = <<>>
             /\ t \notin tmp'
             /\ (t \in DOMAIN wk /\ wk[t].pc = "a_select") =>
                   /\ wk[t].frame.did = {}
                   /\ fs' = fs
                   /\ tmp' = tmp]_vars

\* C35, witness: a task for 1080p has failed because FFMPEG_PATH names a file that
\* does not exist
C35_Witness ==
    \E t \in EndedWithoutMuxer \cap AboveCeiling :
        /\ wk[t].pc = "done"
        /\ StatusOf(t) = "failed"
        /\ jobs[t].error = _resolve_ffmpeg_path("missing", "none").msg

\* the steps of a worker outside _download_with_pytube
OutsideCall == {"start", "call", "finish", "done", "crashed"}

\* C36: a batch worker takes its items one after the other in index order: the calls
\* made so far are those for items 0, 1, 2, ... in that order, every call but the
\* one in flight has its outcome recorded, at most one call is in flight, and the
\* terminal write comes only when every item has its outcome.
C36_OneItemAtATime ==
    \A t \in DOMAIN wk :
        IsBatch(wk[t].payload) =>
            LET n == Len(wk[t].payload.videos)
                calls == Len(wk[t].invoked)
                ended == Len(wk[t].item_results)
            IN  /\ wk[t].invoked = [i \in 1..calls |-> i - 1]
                /\ \A i \in 1..ended : wk[t].item_results[i].index = i - 1
                /\ calls = IF wk[t].pc \in OutsideCall THEN ended ELSE ended + 1
                /\ calls <= n
                /\ wk[t].pc \in {"finish", "done"} <=> (wk[t].pc # "start" /\ ended = n)
                /\ StatusOf(t) \in Terminal => ended = n

\* C36, witness: the second item of a batch is being fetched, the first has its
\* outcome, and the task is still in progress
C36_Witness ==
    \E t \in DOMAIN wk :
        /\ IsBatch(wk[t].payload)
        /\ wk[t].pc \in WriteSteps
        /\ wk[t].invoked = <<0, 1>>
        /\ Len(wk[t].item_results) = 1
        /\ StatusOf(t) = "in_progress"

\* the place of a status in the order queued < in_progress < {completed, failed}
Rank(status) ==
    IF status = "queued" THEN 0 ELSE IF status = "in_progress" THEN 1 ELSE 2

\* the statuses the 200 responses to a caller's successive requests reported, in the
\* order of the requests
StatusesSeen(c) ==
    SelectSeq(IF clients[c].pc = "responded"
              THEN Append(Seen(clients[c]), Reported(clients[c]))
              ELSE Seen(clients[c]),
              LAMBDA reported : reported # NotFound)

\* C37: the statuses reported by the 200 responses to successive GET requests for
\* one task_id never go backwards in the order queued < in_progress < {completed,
\* failed}, and once one of them is terminal every later one is that same status.
C37_MonotoneStatuses ==
    \A c \in DOMAIN clients :
        clients[c].kind = "get" =>
            LET seen == StatusesSeen(c)
            IN  \A i, j \in 1..Len(seen) :
                    i < j => /\ Rank(seen[i]) <= Rank(seen[j])
                             /\ seen[i] \in Terminal => seen[j] = seen[i]

\* C37, witness: three successive requests were answered queued, in_progress and
\* completed
C37_Witness ==
    \E c \in DOMAIN clients :
        /\ clients[c].kind = "get"
        /\ StatusesSeen(c) = <<"queued", "in_progress", "completed">>

\* the tasks whose terminal write is over: the status is completed or failed and the
\* thread that wrote it has left its with jobs_lock block
Settled ==
    {t \in DOMAIN jobs : jobs[t].status \in Terminal /\ Worker(t) \notin jobs_lock}

\* C38: terminal states are absorbing.  Once a task is completed or failed no thread
\* writes its record again (status, result, error, finished_at_unix and every other
\* key stay as they are); the one later change is its removal by the cleanup cycle.
\* Within the terminal write itself the status, once assigned, is not assigned again.
C38_TerminalAbsorbing ==
    [][/\ \A t \in Settled :
             IF t \in DOMAIN jobs' THEN jobs'[t] = jobs[t]
             ELSE /\ sweeper.pc = "scan" /\ sweeper'.pc = "sleep"
                  /\ t \in DOMAIN detached' /\ detached'[t] = jobs[t]
       /\ \A t \in DOMAIN jobs \cap DOMAIN jobs' :
             jobs[t].status \in Terminal => jobs'[t].status = jobs[t].status]_vars

\* C38, witness: a task that failed is still in the registry, as it was written, one
\* retention time later, the cleanup thread asleep again after a cycle
C38_Witness ==
    \E t \in Settled :
        /\ jobs[t].status = "failed"
        /\ wk # <<>>
        /\ now > jobs[t].finished_at_unix
        /\ sweeper.pc = "sleep"
        /\ sweeper.slept_at > jobs[t].finished_at_unix

\* the workers that have a write of their task's record yet to make
YetToWrite == {t \in DOMAIN wk : wk[t].pc \notin {"done", "crashed"}}

\* C39: every write of a worker finds its task in the registry.  The record is there
\* before the worker exists and stays until the worker's terminal write is over,
\* whatever the cleanup thread does, its retention and its interval at their floors
\* included; a worker exists only for a task that download() created.
C39_WorkerFindsTask ==
    /\ DOMAIN wk \subseteq DOMAIN req
    /\ \A t \in YetToWrite : t \in DOMAIN jobs /\ jobs[t].status \notin Terminal
    /\ \A t \in DOMAIN wk : wk[t].pc = "done" => t \in DOMAIN jobs \cup DOMAIN detached

\* C39, witness: retention and interval at their floors, a worker is still fetching
\* its stream a retention time after its first write, the cleanup thread has run a
\* cycle since, and the task is in the registry
C39_Witness ==
    \E t \in YetToWrite :
        /\ sweeper.retention_seconds = RetentionFloor
        /\ sweeper.interval_seconds = IntervalFloor
        /\ wk[t].pc = "p_download"
        /\ now - jobs[t].updated_at >= sweeper.retention_seconds
        /\ sweeper.pc = "sleep"
        /\ sweeper.slept_at > jobs[t].updated_at
        /\ t \in DOMAIN jobs

\* the handlers and the startup call inside the guard's with cleanup_lock block
InGuardBlock == {c \in DOMAIN clients : clients[c].kind = "guard"
                                       /\ clients[c].pc \in {"locked", "starting", "started"}}

\* no thread holds both locks, each lock has at most one holder, and the holders
\* are exactly the threads inside a with block of that lock
LocksApart ==
    /\ \A c \in Handlers : ~(c \in sweeper.cleanup_lock /\ Client(c) \in jobs_lock)
    /\ Cardinality(sweeper.cleanup_lock) <= 1
    /\ Cardinality(jobs_lock) <= 1
    /\ sweeper.cleanup_lock = InGuardBlock
    /\ jobs_lock = {Client(c) : c \in {d \in DOMAIN clients : AtGuard(d, "reading")}}
                   \cup {Worker(t) : t \in {u \in DOMAIN wk : wk[u].pc = "write"}}

\* C40: the two locks cannot deadlock.  No thread ever holds jobs_lock and
\* cleanup_lock at the same time; a thread that has left a with block, by its end,
\* by a return or by an exception, no longer holds its lock; and under fair
\* scheduling every thread that waits for a lock gets it: a caller of the guard, a
\* handler at a with jobs_lock block, the worker at its first and at its terminal
\* write, the cleanup thread at its cycle.
C40_NoDeadlock ==
    /\ []LocksApart
    /\ \A c \in Handlers : AtGuard(c, "called") ~> AtGuard(c, "locked")
    /\ \A c \in Handlers : AtGuard(c, "waiting") ~> AtGuard(c, "reading")
    /\ At(1, "start") ~> At(1, "call")
    /\ At(1, "finish") ~> At(1, "write")
    /\ (sweeper.pc = "scan") ~> (sweeper.pc = "sleep")

\* C40, witness: the worker is inside its terminal write and holds jobs_lock while a
\* handler and the cleanup thread wait for it, and another handler has left the
\* guard by the exception of a failed start
C40_Witness ==
    /\ At(1, "write")
    /\ Worker(1) \in jobs_lock
    /\ \E c \in Handlers : AtGuard(c, "waiting")
    /\ \E c \in Handlers : AtGuard(c, "raised")
    /\ sweeper.pc = "scan"

====
